---------------------------- MODULE Spec2Model ----------------------------
(***************************************************************************)
(* Model of the GTFS-realtime alert translation lambda.                    *)
(*                                                                         *)
(*   src/gtfs_translation/core/processor.py   FeedProcessor                *)
(*   src/gtfs_translation/lambda_handler.py   run_translation              *)
(*   src/gtfs_translation/config.py           language code mapping        *)
(*                                                                         *)
(* Texts are sequences of characters, so that str.strip() is computed.     *)
(* An optional value (Python's None) is a sequence of length 0 or 1.       *)
(* A dict is a record [keys, val]: keys in insertion order, val a function *)
(* on the set of keys.  A TranslatedString is a sequence of                *)
(* [language, text] records; an unset language is the empty string.        *)
(***************************************************************************)
EXTENDS Integers, Sequences, FiniteSets, TLC

VARIABLES
    feed,                 \* the new feed, translated in place
    source_json,          \* the new feed's raw JSON tree (None for pb)
    old_feed,             \* the previously published feed (None when absent)
    dest_json,            \* the previously published raw JSON tree
    target_langs,         \* list of configured target languages
    always_translate_all, \* Translator.always_translate_all
    pc,                   \* position inside process_feed
    translation_map,      \* process_feed's translation_map
    metrics,              \* ProcessingMetrics
    all_needed_english,   \* the list handed to translate_batch
    calls,                \* the translate_batch calls of this run, in order
    translations_by_lang, \* what translate_batch returned (None before)
    run,                  \* 1: first run, 2: run against the first's output
    given,                \* the inputs of the first run, as handed in
    first,                \* what the first run did (empty before run 2)
    rt,                   \* run_translation: the invocation's state
    smartling             \* SmartlingTranslator: token cache and the call in progress

vars == <<feed, source_json, old_feed, dest_json, target_langs,
          always_translate_all, pc, translation_map, metrics,
          all_needed_english, calls, translations_by_lang, run, given,
          first, rt, smartling>>

---------------------------------------------------------------------------
(* Bounds of the model *)

MaxEntities == 2

\* the last reading of the clock
MaxClock == 2

\* the translate_batch calls made on one client
MaxCalls == 2

---------------------------------------------------------------------------
(* Optional values, sequences *)

None == <<>>
Some(v) == <<v>>
IsNone(o) == o = <<>>
Get(o) == o[1]

Range(s) == {s[i] : i \in DOMAIN s}

RECURSIVE SeqSum(_)
SeqSum(s) == IF s = <<>> THEN 0 ELSE Head(s) + SeqSum(Tail(s))


RECURSIVE Filter(_, _)
Filter(s, keep) ==
    IF s = <<>> THEN <<>>
    ELSE IF Head(s) \in keep THEN <<Head(s)>> \o Filter(Tail(s), keep)
    ELSE Filter(Tail(s), keep)

---------------------------------------------------------------------------
(* str.strip() *)

IsSpace(c) == c = " "

RECURSIVE LStrip(_)
LStrip(s) ==
    IF s = <<>> THEN <<>>
    ELSE IF IsSpace(Head(s)) THEN LStrip(Tail(s)) ELSE s

RECURSIVE RStrip(_)
RStrip(s) ==
    IF s = <<>> THEN <<>>
    ELSE IF IsSpace(s[Len(s)]) THEN RStrip(SubSeq(s, 1, Len(s) - 1)) ELSE s

Strip(s) == RStrip(LStrip(s))

\* faulty variant: only the empty string counts as blank (the strip() is forgotten)
IsEmptyOnly(s) == s = <<>>

\* english.strip() == ""
IsBlank(s) == Strip(s) = <<>>

---------------------------------------------------------------------------
(* config.py *)

SMARTLING_LANGUAGE_MAP == [k \in {"es-419"} |-> "es-LA"]

to_smartling_code(lang) ==
    IF lang \in DOMAIN SMARTLING_LANGUAGE_MAP
    THEN SMARTLING_LANGUAGE_MAP[lang] ELSE lang

\* faulty variant: legacy codes are not normalized
KeepCode(lang) == lang

from_smartling_code(lang) ==
    IF \E k \in DOMAIN SMARTLING_LANGUAGE_MAP : SMARTLING_LANGUAGE_MAP[k] = lang
    THEN CHOOSE k \in DOMAIN SMARTLING_LANGUAGE_MAP :
             SMARTLING_LANGUAGE_MAP[k] = lang
    ELSE lang

---------------------------------------------------------------------------
(* dicts *)

EmptyDict == [keys |-> <<>>, val |-> <<>>]

HasKey(d, k) == k \in DOMAIN d.val

\* dict.get(k, {}) on a dict of dicts
GetOrEmpty(d, k) == IF HasKey(d, k) THEN d.val[k] ELSE <<>>

\* a.update(b) on plain (unordered) language -> text dicts
Update(a, b) ==
    [l \in (DOMAIN a) \cup (DOMAIN b) |-> IF l \in DOMAIN b THEN b[l] ELSE a[l]]

\* faulty variant: a map that records a key every time it is stored
SetKeyRepeating(d, k, v) ==
    [keys |-> Append(d.keys, k),
     val  |-> [x \in (DOMAIN d.val) \cup {k} |-> IF x = k THEN v ELSE d.val[x]]]

\* d[k] = v
SetKey(d, k, v) ==
    [keys |-> IF HasKey(d, k) THEN d.keys ELSE Append(d.keys, k),
     val  |-> [x \in (DOMAIN d.val) \cup {k} |-> IF x = k THEN v ELSE d.val[x]]]

\* result[k].update(v) on a defaultdict(dict)
UpdateKey(d, k, v) == SetKey(d, k, Update(GetOrEmpty(d, k), v))

---------------------------------------------------------------------------
(* processor.py: reading a TranslatedString *)

\* faulty variant: the url is gathered and written back as a text field
PbFieldsWithUrl == <<"header_text", "description_text",
                     "tts_header_text", "tts_description_text", "url">>

PB_FIELDS == <<"header_text", "description_text",
               "tts_header_text", "tts_description_text">>

ENHANCED_FIELDS == <<"service_effect_text", "timeframe_text">>

IsEnglishTag(language) == language = "" \/ language = "en"

\* the first entry with no language or language "en"
RECURSIVE _get_english_text(_)
_get_english_text(ts) ==
    IF ts = <<>> THEN None
    ELSE IF IsEnglishTag(Head(ts).language) THEN Some(Head(ts).text)
    ELSE _get_english_text(Tail(ts))

\* translations[normalized_lang] = t.text, for every entry in order
RECURSIVE CollectTranslations(_, _)
CollectTranslations(ts, acc) ==
    IF ts = <<>> THEN acc
    ELSE LET t == Head(ts) IN
         IF t.language # "" /\ t.language # "en"
         THEN CollectTranslations(Tail(ts),
                  Update(acc, [l \in {from_smartling_code(t.language)} |-> t.text]))
         ELSE CollectTranslations(Tail(ts), acc)

\* None for {}, else Some([english, translations]) for {english: translations}
_extract_translations_from_ts(ts, include_all_translations) ==
    LET english_text == _get_english_text(ts) IN
    IF IsNone(english_text) THEN None
    ELSE IF ~include_all_translations
         THEN Some([english |-> Get(english_text), translations |-> <<>>])
         ELSE Some([english |-> Get(english_text),
                    translations |-> CollectTranslations(ts, <<>>)])

\* the JSON reader stops at the first English entry (break)
RECURSIVE FirstEnglishJson(_)
FirstEnglishJson(translations_list) ==
    IF translations_list = <<>> THEN None
    ELSE IF IsEnglishTag(Head(translations_list).language)
         THEN Some(Head(translations_list).text)
         ELSE FirstEnglishJson(Tail(translations_list))

_extract_translations_from_json(ts_json, include_all_translations) ==
    LET english_text == FirstEnglishJson(ts_json) IN
    IF IsNone(english_text) THEN None
    ELSE IF ~include_all_translations
         THEN Some([english |-> Get(english_text), translations |-> <<>>])
         ELSE Some([english |-> Get(english_text),
                    translations |-> CollectTranslations(ts_json, <<>>)])

---------------------------------------------------------------------------
(* processor.py: _gather_translations_from_feed *)

\* the fields of `names` an alert has, in the order of `names`
RECURSIVE FieldsOf(_, _)
FieldsOf(alert, names) ==
    IF names = <<>> THEN <<>>
    ELSE IF Head(names) \in DOMAIN alert
         THEN <<alert[Head(names)]>> \o FieldsOf(alert, Tail(names))
         ELSE FieldsOf(alert, Tail(names))

\* every structured TranslatedString of a feed, in the order the loops visit
RECURSIVE WalkEntities(_, _)
WalkEntities(entities, names) ==
    IF entities = <<>> THEN <<>>
    ELSE LET e == Head(entities) IN
         (IF IsNone(e.alert) THEN <<>> ELSE FieldsOf(Get(e.alert), names))
         \o WalkEntities(Tail(entities), names)

\* result[english].update(trans_dict) for each extracted string
RECURSIVE FoldExtracted(_, _)
FoldExtracted(extracted, result) ==
    IF extracted = <<>> THEN result
    ELSE LET x == Head(extracted) IN
         IF IsNone(x) THEN FoldExtracted(Tail(extracted), result)
         ELSE FoldExtracted(Tail(extracted),
                  UpdateKey(result, Get(x).english, Get(x).translations))

_gather_translations_from_feed(f, json_data, include_all_translations) ==
    LET pb == IF IsNone(f) THEN <<>>
              ELSE WalkEntities(Get(f).entity, PB_FIELDS)
        js == IF IsNone(json_data) THEN <<>>
              ELSE WalkEntities(Get(json_data).entity,
                       (IF include_all_translations THEN PB_FIELDS ELSE <<>>)
                       \o ENHANCED_FIELDS)
        fromPb == [i \in DOMAIN pb |->
                     _extract_translations_from_ts(pb[i], include_all_translations)]
        fromJs == [i \in DOMAIN js |->
                     _extract_translations_from_json(js[i], include_all_translations)]
    IN  FoldExtracted(fromPb \o fromJs, EmptyDict)

---------------------------------------------------------------------------
(* processor.py: process_feed, steps 1 to 4 (before the provider call) *)

\* faulty variant: the old translations are looked up by the trimmed text
SeedTranslationMapTrimmed(old_translation_map, new_english_map) ==
    [keys |-> new_english_map.keys,
     val  |-> [english \in DOMAIN new_english_map.val |->
                  GetOrEmpty(old_translation_map, Strip(english))]]

\* {english: {**old_translation_map.get(english, {})} for english in new_english_map}
SeedTranslationMap(old_translation_map, new_english_map) ==
    [keys |-> new_english_map.keys,
     val  |-> [english \in DOMAIN new_english_map.val |->
                  GetOrEmpty(old_translation_map, english)]]

\* sum(1 for english ... if english.strip() != "" for lang in target_langs
\*     if lang in translations)
TranslationsReused(tmap, langs) ==
    SeqSum([i \in DOMAIN tmap.keys |->
        IF IsBlank(tmap.keys[i]) THEN 0
        ELSE SeqSum([j \in DOMAIN langs |->
                 IF langs[j] \in DOMAIN tmap.val[tmap.keys[i]] THEN 1 ELSE 0])])

AlertsProcessed(f) ==
    SeqSum([i \in DOMAIN f.entity |-> IF IsNone(f.entity[i].alert) THEN 0 ELSE 1])

\* english.strip() != "" and any(lang not in translations for lang in target_langs)
IsMissing(tmap, english, langs) ==
    /\ ~IsBlank(english)
    /\ \E j \in DOMAIN langs : langs[j] \notin DOMAIN tmap.val[english]

MissingEnglish(tmap, langs) ==
    Filter(tmap.keys, {english \in DOMAIN tmap.val : IsMissing(tmap, english, langs)})

NonBlankEnglish(tmap) ==
    Filter(tmap.keys, {english \in DOMAIN tmap.val : ~IsBlank(english)})

\* faulty variant: the flag is ignored
OnlyMissingEnglish(tmap, langs, translate_all) == MissingEnglish(tmap, langs)

AllNeededEnglish(tmap, langs, translate_all) ==
    LET missing_english == MissingEnglish(tmap, langs) IN
    IF translate_all
    THEN IF missing_english # <<>> THEN NonBlankEnglish(tmap) ELSE <<>>
    ELSE missing_english

---------------------------------------------------------------------------
(* processor.py: process_feed, merging what translate_batch returned *)

\* faulty variant: a null result is stored as an empty translation
RECURSIVE MergeLangStoringNulls(_, _, _, _)
MergeLangStoringNulls(tmap, lang, needed, translations) ==
    IF needed = <<>> THEN tmap
    ELSE MergeLangStoringNulls(
             UpdateKey(tmap, Head(needed),
                       [l \in {lang} |->
                           IF IsNone(Head(translations)) THEN <<>>
                           ELSE Get(Head(translations))]),
             lang, Tail(needed), Tail(translations))

\* for english, translated in zip(all_needed_english, translations):
\*     if translated is not None: translation_map[english][lang] = translated
RECURSIVE MergeLang(_, _, _, _)
MergeLang(tmap, lang, needed, translations) ==
    IF needed = <<>> THEN tmap
    ELSE MergeLang(
             IF IsNone(Head(translations)) THEN tmap
             ELSE UpdateKey(tmap, Head(needed),
                            [l \in {lang} |-> Get(Head(translations))]),
             lang, Tail(needed), Tail(translations))

\* for lang, translations in translations_by_lang.items(): ...
RECURSIVE MergeResults(_, _, _, _)
MergeResults(tmap, langs, needed, by_lang) ==
    IF langs = <<>> THEN tmap
    ELSE MergeResults(MergeLang(tmap, Head(langs), needed, by_lang[Head(langs)]),
                      Tail(langs), needed, by_lang)

\* the keys of the returned dict, in insertion order (dict(zip(target_langs, ...)))
RECURSIVE DictKeys(_, _)
DictKeys(langs, seen) ==
    IF langs = <<>> THEN <<>>
    ELSE IF Head(langs) \in seen THEN DictKeys(Tail(langs), seen)
    ELSE <<Head(langs)>> \o DictKeys(Tail(langs), seen \cup {Head(langs)})

\* faulty variant: every returned item is counted, the null ones too
StringsTranslatedCountingNull(langs, by_lang) ==
    SeqSum([j \in DOMAIN langs |-> Len(by_lang[langs[j]])])

\* sum(1 for translation in translations if translation is not None), per language
StringsTranslated(langs, by_lang) ==
    SeqSum([j \in DOMAIN langs |->
        SeqSum([i \in DOMAIN by_lang[langs[j]] |->
                   IF IsNone(by_lang[langs[j]][i]) THEN 0 ELSE 1])])

\* the loop over translations_by_lang.items() when zip(..., strict=True) may
\* raise: the languages before the first list of another length are merged
\* in full, of that list the pairs zip yields before it raises
RECURSIVE MergeUntilMismatch(_, _, _, _, _)
MergeUntilMismatch(tmap, count, langs, needed, by_lang) ==
    IF langs = <<>> THEN [tmap |-> tmap, count |-> count, raised |-> FALSE]
    ELSE LET translations == by_lang[Head(langs)]
             n == IF Len(translations) < Len(needed) THEN Len(translations)
                  ELSE Len(needed)
             merged == MergeLang(tmap, Head(langs), SubSeq(needed, 1, n),
                                 SubSeq(translations, 1, n))
             counted == count + StringsTranslated(<<Head(langs)>>, by_lang)
         IN  IF Len(translations) # Len(needed)
             THEN [tmap |-> merged, count |-> counted, raised |-> TRUE]
             ELSE MergeUntilMismatch(merged, counted, Tail(langs), needed, by_lang)

\* for english in translation_map: if english.strip() == "":
\*     for lang in target_langs: translation_map[english][lang] = ""
ForceBlank(tmap, langs) ==
    [keys |-> tmap.keys,
     val  |-> [english \in DOMAIN tmap.val |->
                  IF IsBlank(english)
                  THEN Update(tmap.val[english], [l \in Range(langs) |-> <<>>])
                  ELSE tmap.val[english]]]

---------------------------------------------------------------------------
(* processor.py: writing the translations back *)

\* faulty variant: a translation equal to the English text is added too
ShouldAddIdentity(translated, english_text) == ~IsNone(translated)

\* translated_text is not None and
\*   (translated_text != english_text or english_text.strip() == "")
ShouldAdd(translated, english_text) ==
    /\ ~IsNone(translated)
    /\ (Get(translated) # english_text \/ IsBlank(english_text))

\* faulty variant: a new entry is put in front of the entries of the field
RECURSIVE AddLangsInFront(_, _, _, _, _)
AddLangsInFront(ts, english_text, existing_langs, translations, langs) ==
    IF langs = <<>> THEN ts
    ELSE LET lang == Head(langs)
             translated == IF lang \in DOMAIN translations
                           THEN Some(translations[lang]) ELSE None
         IN  AddLangsInFront(
                 IF lang \notin existing_langs /\ ShouldAdd(translated, english_text)
                 THEN <<[language |-> lang, text |-> Get(translated)]>> \o ts
                 ELSE ts,
                 english_text, existing_langs, translations, Tail(langs))

\* the loop over target_langs; existing_langs is computed once, before the loop
RECURSIVE AddLangs(_, _, _, _, _)
AddLangs(ts, english_text, existing_langs, translations, langs) ==
    IF langs = <<>> THEN ts
    ELSE LET lang == Head(langs)
             translated == IF lang \in DOMAIN translations
                           THEN Some(translations[lang]) ELSE None
         IN  AddLangs(
                 IF lang \notin existing_langs /\ ShouldAdd(translated, english_text)
                 THEN Append(ts, [language |-> lang, text |-> Get(translated)])
                 ELSE ts,
                 english_text, existing_langs, translations, Tail(langs))

\* faulty variant: a writer that forgets existing_langs
ApplyIgnoringExisting(ts, tmap, langs) ==
    LET english_text == _get_english_text(ts) IN
    IF IsNone(english_text) THEN ts
    ELSE AddLangs(ts, Get(english_text), {},
                  GetOrEmpty(tmap, Get(english_text)), langs)

_apply_translations(ts, tmap, langs) ==
    LET english_text == _get_english_text(ts) IN
    IF IsNone(english_text) THEN ts
    ELSE AddLangs(ts, Get(english_text),
                  {ts[i].language : i \in DOMAIN ts},
                  GetOrEmpty(tmap, Get(english_text)), langs)

\* the JSON writer keeps the last English entry (no break)
RECURSIVE LastEnglishJson(_)
LastEnglishJson(translations) ==
    IF translations = <<>> THEN None
    ELSE IF IsEnglishTag(translations[Len(translations)].language)
         THEN Some(translations[Len(translations)].text)
         ELSE LastEnglishJson(SubSeq(translations, 1, Len(translations) - 1))

_apply_translations_json(ts_json, tmap, langs) ==
    LET english_text == LastEnglishJson(ts_json) IN
    IF IsNone(english_text) THEN ts_json
    ELSE AddLangs(ts_json, Get(english_text),
                  {ts_json[i].language : i \in DOMAIN ts_json} \ {""},
                  GetOrEmpty(tmap, Get(english_text)), langs)

---------------------------------------------------------------------------
(* processor.py: _process_url *)

\* "needle in haystack" for strings
RECURSIVE Contains(_, _)
Contains(haystack, needle) ==
    IF Len(haystack) < Len(needle) THEN FALSE
    ELSE IF SubSeq(haystack, 1, Len(needle)) = needle THEN TRUE
    ELSE Contains(Tail(haystack), needle)

LOCALE_PARAM == <<"locale=">>

RECURSIVE FirstEnglishUrl(_)
FirstEnglishUrl(ts) ==
    IF ts = <<>> THEN <<>>
    ELSE IF IsEnglishTag(Head(ts).language) THEN Head(ts).text
    ELSE FirstEnglishUrl(Tail(ts))

LocalizedUrl(english_url, lang) ==
    IF Contains(english_url, LOCALE_PARAM) THEN english_url
    ELSE english_url
         \o (IF Contains(english_url, <<"?">>) THEN <<"&">> ELSE <<"?">>)
         \o LOCALE_PARAM \o <<lang>>

RECURSIVE AddUrls(_, _, _, _)
AddUrls(ts, english_url, existing_langs, langs) ==
    IF langs = <<>> THEN ts
    ELSE AddUrls(
             IF Head(langs) \in existing_langs THEN ts
             ELSE Append(ts, [language |-> Head(langs),
                              text |-> LocalizedUrl(english_url, Head(langs))]),
             english_url, existing_langs, Tail(langs))

_process_url(ts, langs) ==
    LET english_url == FirstEnglishUrl(ts) IN
    IF english_url = <<>> THEN ts
    ELSE AddUrls(ts, english_url, {ts[i].language : i \in DOMAIN ts}, langs)

---------------------------------------------------------------------------
(* processor.py: process_feed, the three write-back loops *)

InSeq(x, s) == \E i \in DOMAIN s : s[i] = x

\* "Apply to Protobuf": every structured field of every alert
ApplyToProtobuf(f, tmap, langs) ==
    [f EXCEPT !.entity = [i \in DOMAIN f.entity |->
        LET e == f.entity[i] IN
        IF IsNone(e.alert) THEN e
        ELSE [e EXCEPT !.alert = Some([n \in DOMAIN Get(e.alert) |->
                 IF InSeq(n, PB_FIELDS)
                 THEN _apply_translations(Get(e.alert)[n], tmap, langs)
                 ELSE Get(e.alert)[n]])]]]

\* "Apply to Enhanced JSON": the enhanced fields of the raw tree
ApplyToEnhancedJson(json, tmap, langs) ==
    IF IsNone(json) THEN json
    ELSE Some([Get(json) EXCEPT !.entity = [i \in DOMAIN Get(json).entity |->
        LET e == Get(json).entity[i] IN
        IF IsNone(e.alert) THEN e
        ELSE [e EXCEPT !.alert = Some([n \in DOMAIN Get(e.alert) |->
                 IF InSeq(n, ENHANCED_FIELDS)
                 THEN _apply_translations_json(Get(e.alert)[n], tmap, langs)
                 ELSE Get(e.alert)[n]])]]])

\* "Process URLs"
ProcessUrls(f, langs) ==
    [f EXCEPT !.entity = [i \in DOMAIN f.entity |->
        LET e == f.entity[i] IN
        IF IsNone(e.alert) THEN e
        ELSE [e EXCEPT !.alert = Some([n \in DOMAIN Get(e.alert) |->
                 IF n = "url" THEN _process_url(Get(e.alert)[n], langs)
                 ELSE Get(e.alert)[n]])]]]

---------------------------------------------------------------------------
(* processor.py: parse, serialize, _merge_enhanced_fields (JSON form) *)

STRUCTURED_KEYS == Range(PB_FIELDS) \cup {"url"}

\* json_format.Parse(..., ignore_unknown_fields=True): the structured part
ParseJson(tree) ==
    [header |-> tree.header,
     entity |-> [i \in DOMAIN tree.entity |->
        LET e == tree.entity[i] IN
        [id |-> e.id,
         alert |-> IF IsNone(e.alert) THEN None
                   ELSE Some([n \in (DOMAIN Get(e.alert)) \cap STRUCTURED_KEYS |->
                                 Get(e.alert)[n]])]]]

\* json.loads(MessageToJson(feed)): the tree derived from the structured feed
MessageToJson(f) ==
    [header |-> f.header,
     entity |-> [i \in DOMAIN f.entity |->
        [id |-> f.entity[i].id, alert |-> f.entity[i].alert, extra |-> <<>>]]]

\* faulty variant: the original entity is looked up by position, not by id
FirstOrigEntity(original, eid) ==
    IF original.entity = <<>> THEN <<>> ELSE <<original.entity[1]>>

\* orig_entities.get(eid): the last original entity with that id
OrigEntity(original, eid) ==
    LET idx == {i \in DOMAIN original.entity : original.entity[i].id = eid} IN
    IF idx = {} THEN None
    ELSE Some(original.entity[CHOOSE i \in idx : \A j \in idx : j <= i])

\* faulty variant: the original's value replaces the one already there
FillOverwriting(cur, orig) ==
    [k \in (DOMAIN cur) \cup (DOMAIN orig) |->
        IF k \in DOMAIN orig THEN orig[k] ELSE cur[k]]

\* for k, v in orig.items(): if k not in cur: cur[k] = v
FillOnly(cur, orig) ==
    [k \in (DOMAIN cur) \cup (DOMAIN orig) |->
        IF k \in DOMAIN cur THEN cur[k] ELSE orig[k]]

_merge_enhanced_fields(current, original) ==
    [current EXCEPT !.entity = [i \in DOMAIN current.entity |->
        LET entity == current.entity[i]
            orig_entity == OrigEntity(original, entity.id)
        IN  IF IsNone(orig_entity) THEN entity
            ELSE LET o == Get(orig_entity) IN
                 [id    |-> entity.id,
                  extra |-> FillOnly(entity.extra, o.extra),
                  alert |-> IF IsNone(entity.alert) THEN o.alert
                            ELSE IF IsNone(o.alert) THEN entity.alert
                            ELSE Some(FillOnly(Get(entity.alert), Get(o.alert)))]]]

\* serialize(feed, "json", original_json): the tree that is written out
SerializeJson(f, original_json) ==
    IF IsNone(original_json) THEN MessageToJson(f)
    ELSE _merge_enhanced_fields(MessageToJson(f), Get(original_json))

---------------------------------------------------------------------------
(* Inputs: feeds, target languages, provider answers *)

T(language, text) == [language |-> language, text |-> text]

A == <<"a">>
B == <<"b">>
SPACE == <<" ">>
EMPTY == <<>>
X == <<"x">>
Y == <<"y">>
OV == <<"o">>
URL == <<"h">>

Alert1(n1, ts1) == Some([n \in {n1} |-> ts1])
Alert2(n1, ts1, n2, ts2) == Some([n \in {n1, n2} |-> IF n = n1 THEN ts1 ELSE ts2])

\* alerts of a new (source) feed in either wire form
NewAlerts ==
    { None,
      Alert1("header_text", <<T("en", A)>>),
      Alert2("header_text", <<T("", B)>>, "url", <<T("en", URL)>>),
      Alert2("header_text", <<T("en", SPACE)>>,
             "description_text", <<T("en", EMPTY)>>),
      Alert2("header_text", <<T("en", A), T("es-419", OV)>>,
             "tts_header_text", <<T("fr", OV)>>) }

\* alerts that carry enhanced fields, which only the JSON form has
EnhancedAlerts ==
    { Alert2("service_effect_text", <<T("en", A)>>,
             "timeframe_text", <<T("en", B), T("es-419", OV)>>) }

\* previously published feeds (one or two alerts)
OldAlertLists ==
    { <<Alert1("header_text", <<T("en", A), T("es-419", X)>>)>>,
      <<Alert1("header_text", <<T("en", A), T("es-LA", X)>>),
        Alert1("header_text", <<T("en", SPACE), T("es-419", X)>>)>>,
      <<Alert1("header_text", <<T("en", A), T("es-419", X), T("fr", Y)>>),
        Alert1("description_text", <<T("", B), T("es-419", B), T("fr", X)>>)>> }

TargetLangLists == { <<"es-419">>, <<"es-419", "fr">>, <<"es-LA">> }

EntityIds == <<"e1", "e2", "e3", "e4">>

\* a raw tree: entity i has id EntityIds[i]
Tree(alerts, timestamp) ==
    [header |-> [timestamp |-> timestamp],
     entity |-> [i \in DOMAIN alerts |->
                    [id |-> EntityIds[i], alert |-> alerts[i], extra |-> <<>>]]]

AlertLists(S) == UNION {[1..n -> S] : n \in 0..MaxEntities}

HasEnhanced(alerts) == \E i \in DOMAIN alerts : alerts[i] \in EnhancedAlerts

\* a source is [fmt, tree]; a pb source has no enhanced fields
Sources ==
    {[fmt |-> "pb", tree |-> Tree(al, 2)] : al \in AlertLists(NewAlerts)}
    \cup
    {[fmt |-> "json", tree |-> Tree(al, 2)] :
        al \in {l \in AlertLists(NewAlerts \cup EnhancedAlerts) : HasEnhanced(l)}}

OldTrees == {Tree(al, 1) : al \in OldAlertLists}

\* MockTranslator: f"[{lang}] {text}"
MockTranslation(lang, text) == <<"[", lang, "]", " ">> \o text

\* every dict translate_batch can return for texts and langs: one list per
\* language, aligned with texts
AnswerKinds(texts, langs) ==
    [Range(langs) -> [DOMAIN texts -> {"tr", "same", "null"}]]

Uniform(k, texts) ==
    \A l1, l2 \in DOMAIN k : \A i1, i2 \in DOMAIN texts : k[l1][i1] = k[l2][i2]

AtMostOneDeviation(k, texts) ==
    \A l1, l2 \in DOMAIN k : \A i1, i2 \in DOMAIN texts :
        (k[l1][i1] # "tr" /\ k[l2][i2] # "tr") => (l1 = l2 /\ i1 = i2)

\* the answers explored.  Run 1: the provider deviates from a plain
\* translation for no pair, for a single pair, or in the same way for every
\* pair.  Run 2: it answers every pair in the same way.
Responses(r, texts, langs) ==
    {k \in AnswerKinds(texts, langs) :
        \/ Uniform(k, texts)
        \/ r = 1 /\ AtMostOneDeviation(k, texts)}

Answer(kind, lang, text) ==
    IF kind = "tr" THEN Some(MockTranslation(lang, text))
    ELSE IF kind = "same" THEN Some(text) ELSE None

Min(a, b) == IF a < b THEN a ELSE b

\* the items of a complete response for texts, in the order of the keys
CompleteItems(kinds, lang, texts) ==
    [i \in DOMAIN texts |->
        [key |-> i - 1, translationText |-> Answer(kinds[i], lang, texts[i])]]

\* orders in which the provider may list n items
Orders(n) ==
    {[i \in 1..n |-> i], [i \in 1..n |-> n + 1 - i], [i \in 1..n |-> (i % n) + 1]}

Listed(items, order) == [i \in DOMAIN items |-> items[order[i]]]

\* faulty variant: the items are taken in the order the provider listed them
KeepListedOrder(items) == items

\* sorted(items, key=lambda x: int(x["key"]))
RECURSIVE SortByKey(_)
SortByKey(items) ==
    IF items = <<>> THEN <<>>
    ELSE LET least == CHOOSE i \in DOMAIN items :
                 \A j \in DOMAIN items :
                     \/ items[i].key < items[j].key
                     \/ (items[i].key = items[j].key /\ i <= j)
         IN  <<items[least]>>
             \o SortByKey([k \in 1..(Len(items) - 1) |->
                              IF k < least THEN items[k] ELSE items[k + 1]])

\* [item["translationText"] for item in sorted_items]
InlineResult(items) ==
    LET sorted_items == SortByKey(items) IN
    [i \in DOMAIN sorted_items |-> sorted_items[i].translationText]

\* what translate_batch returns when the provider answers every item and
\* lists the items of each response in this order
ByLang(kinds, texts, order) ==
    [lang \in DOMAIN kinds |->
        InlineResult(Listed(CompleteItems(kinds[lang], lang, texts), order))]

\* a response that leaves out the item with the last key, or lists it twice
Incomplete(items, fault) ==
    IF fault = "omitted" THEN SubSeq(items, 1, Len(items) - 1)
    ELSE items \o <<items[Len(items)]>>

\* the incomplete responses explored: both kinds in run 1, one in run 2
Faults(r) == IF r = 1 THEN {"omitted", "repeated"} ELSE {"omitted"}

\* what translate_batch returns when the response for one language is
\* incomplete and every item listed is translated
ByLangIncomplete(langs, texts, lang, fault) ==
    [l \in Range(langs) |->
        LET items == CompleteItems([i \in DOMAIN texts |-> "tr"], l, texts) IN
        InlineResult(IF l = lang THEN Incomplete(items, fault) ELSE items)]

---------------------------------------------------------------------------
(* process_feed as a state machine; run 2 reads run 1's output as old feed *)

NoMetrics == [alerts_processed |-> 0, strings_translated |-> 0,
              translations_reused |-> 0]

Idle == [pc |-> "idle"]

\* no provider client is being followed
NoClient == [pc |-> "none"]

Init ==
    /\ \E src \in Sources, old \in {None} \cup {Some(t) : t \in OldTrees} :
          /\ feed = ParseJson(src.tree)
          /\ source_json = IF src.fmt = "json" THEN Some(src.tree) ELSE None
          /\ old_feed = IF IsNone(old) THEN None ELSE Some(ParseJson(Get(old)))
          /\ dest_json = IF src.fmt = "json" THEN old ELSE None
    /\ target_langs \in TargetLangLists
    /\ always_translate_all \in BOOLEAN
    /\ pc = "start"
    /\ translation_map = EmptyDict
    /\ metrics = NoMetrics
    /\ all_needed_english = <<>>
    /\ calls = <<>>
    /\ translations_by_lang = None
    /\ run = 1
    /\ given = [feed |-> feed, source_json |-> source_json]
    /\ first = None
    /\ smartling = NoClient
    /\ rt = Idle

\* process_feed up to the decision whether to call the provider
Prepare ==
    /\ pc = "start"
    /\ LET old_translation_map ==
               _gather_translations_from_feed(old_feed, dest_json, TRUE)
           new_english_map ==
               _gather_translations_from_feed(Some(feed), source_json, FALSE)
           tmap == SeedTranslationMap(old_translation_map, new_english_map)
           needed == AllNeededEnglish(tmap, target_langs, always_translate_all)
       IN  /\ translation_map' = tmap
           /\ metrics' = [alerts_processed |-> AlertsProcessed(feed),
                          strings_translated |-> 0,
                          translations_reused |->
                              TranslationsReused(tmap, target_langs)]
           /\ all_needed_english' = needed
           /\ pc' = IF needed # <<>> THEN "translate" ELSE "apply"
    /\ UNCHANGED <<feed, source_json, old_feed, dest_json, target_langs,
                   always_translate_all, calls, translations_by_lang, run,
                   given, first, rt, smartling>>

\* translate_batch returns: count and merge the results
TranslateBatch ==
    /\ pc = "translate"
    /\ \E kinds \in Responses(run, all_needed_english, target_langs),
          order \in Orders(Len(all_needed_english)) :
          LET by_lang == ByLang(kinds, all_needed_english, order)
              keys == DictKeys(target_langs, {})
          IN  /\ translations_by_lang' = Some(by_lang)
              /\ metrics' = [metrics EXCEPT !.strings_translated =
                                 @ + StringsTranslated(keys, by_lang)]
              /\ translation_map' =
                     MergeResults(translation_map, keys, all_needed_english, by_lang)
    /\ calls' = Append(calls, [texts |-> all_needed_english, langs |-> target_langs])
    /\ pc' = "apply"
    /\ UNCHANGED <<feed, source_json, old_feed, dest_json, target_langs,
                   always_translate_all, all_needed_english, run, given, first, rt, smartling>>

\* translate_batch returns a list of another length than the request: zip
\* raises ValueError, which leaves process_feed
TranslateBatchMisaligned ==
    /\ pc = "translate"
    /\ \E lang \in Range(target_langs), fault \in Faults(run) :
          LET by_lang == ByLangIncomplete(target_langs, all_needed_english,
                                          lang, fault)
              out == MergeUntilMismatch(translation_map, metrics.strings_translated,
                                        DictKeys(target_langs, {}),
                                        all_needed_english, by_lang)
          IN  /\ out.raised
              /\ translations_by_lang' = Some(by_lang)
              /\ metrics' = [metrics EXCEPT !.strings_translated = out.count]
              /\ translation_map' = out.tmap
    /\ calls' = Append(calls, [texts |-> all_needed_english, langs |-> target_langs])
    /\ pc' = "raised"
    /\ UNCHANGED <<feed, source_json, old_feed, dest_json, target_langs,
                   always_translate_all, all_needed_english, run, given, first,
                   rt, smartling>>

\* translate_batch raises: the exception leaves process_feed
TranslateBatchRaises ==
    /\ pc = "translate"
    /\ calls' = Append(calls, [texts |-> all_needed_english, langs |-> target_langs])
    /\ pc' = "raised"
    /\ UNCHANGED <<feed, source_json, old_feed, dest_json, target_langs,
                   always_translate_all, translation_map, metrics,
                   all_needed_english, translations_by_lang, run, given, first, rt, smartling>>

\* the blank strings, then the three write-back loops
Apply ==
    /\ pc = "apply"
    /\ LET tmap == ForceBlank(translation_map, target_langs) IN
          /\ translation_map' = tmap
          /\ feed' = ProcessUrls(ApplyToProtobuf(feed, tmap, target_langs),
                                 target_langs)
          /\ source_json' = ApplyToEnhancedJson(source_json, tmap, target_langs)
    /\ pc' = "done"
    /\ UNCHANGED <<old_feed, dest_json, target_langs, always_translate_all,
                   metrics, all_needed_english, calls, translations_by_lang,
                   run, given, first, rt, smartling>>

\* the output of run 1 is published and the same source is processed again
RunAgain ==
    /\ pc = "done"
    /\ run = 1
    /\ first' = Some([feed |-> feed, source_json |-> source_json,
                      translation_map |-> translation_map, metrics |-> metrics,
                      all_needed_english |-> all_needed_english, calls |-> calls,
                      translations_by_lang |-> translations_by_lang,
                      old_feed |-> old_feed, dest_json |-> dest_json])
    /\ LET published == SerializeJson(feed, source_json) IN
          /\ old_feed' = Some(ParseJson(published))
          /\ dest_json' = IF IsNone(source_json) THEN None ELSE Some(published)
    /\ feed' = given.feed
    /\ source_json' = given.source_json
    /\ run' = 2
    /\ pc' = "start"
    /\ translation_map' = EmptyDict
    /\ metrics' = NoMetrics
    /\ all_needed_english' = <<>>
    /\ calls' = <<>>
    /\ translations_by_lang' = None
    /\ UNCHANGED <<target_langs, always_translate_all, given, rt, smartling>>

Next ==
    \/ Prepare
    \/ TranslateBatch
    \/ TranslateBatchMisaligned
    \/ TranslateBatchRaises
    \/ Apply
    \/ RunAgain

Spec == Init /\ [][Next]_vars

---------------------------------------------------------------------------
(* process_feed on feeds whose English texts differ by surrounding         *)
(* whitespace only: the previously published feed holds one alert, e1,     *)
(* with translations of its text; the new feed holds e1, or e1 and e2.     *)

ReuseTexts == {A, A \o SPACE, SPACE \o A, B}

ReuseSources ==
    {Tree(<<Alert1("header_text", <<T("en", e)>>)>>, 2) : e \in ReuseTexts}
    \cup
    {Tree(<<Alert1("header_text", <<T("en", e1)>>),
            Alert1("header_text", <<T("en", e2)>>)>>, 2) :
        e1 \in ReuseTexts, e2 \in ReuseTexts}

ReuseOldTrees ==
    {Tree(<<Alert1("header_text", <<T("en", e), T("es-419", X), T("fr", Y)>>)>>, 1) :
        e \in ReuseTexts}

InitReuse ==
    /\ \E src \in ReuseSources, old \in ReuseOldTrees :
          /\ feed = ParseJson(src)
          /\ old_feed = Some(ParseJson(old))
    /\ source_json = None
    /\ dest_json = None
    /\ target_langs \in TargetLangLists
    /\ always_translate_all \in BOOLEAN
    /\ pc = "start"
    /\ translation_map = EmptyDict
    /\ metrics = NoMetrics
    /\ all_needed_english = <<>>
    /\ calls = <<>>
    /\ translations_by_lang = None
    /\ run = 1
    /\ given = [feed |-> feed, source_json |-> source_json]
    /\ first = None
    /\ smartling = NoClient
    /\ rt = Idle

NextReuse ==
    \/ Prepare
    \/ TranslateBatch
    \/ Apply

SpecReuse == InitReuse /\ [][NextReuse]_vars

---------------------------------------------------------------------------
(* process_feed with target-language lists as Settings.target_lang_list    *)
(* yields them: the configured codes in order, a repeated code kept.  The  *)
(* new feed is a JSON source whose alert has a structured text field, a    *)
(* url and an enhanced field, each with pairwise distinct language tags.   *)

TagLangLists ==
    { <<"es-419">>, <<"es-419", "fr">>, <<"es-419", "es-419">>,
      <<"fr", "es-419", "fr">> }

TagHeaders == { <<T("en", A)>>, <<T("en", A), T("es-419", OV)>>, <<T("", B)>> }

TagUrls == { <<T("en", URL)>>, <<T("en", URL), T("fr", OV)>> }

TagSources ==
    {Tree(<<Some([n \in {"header_text", "url", "service_effect_text"} |->
                    IF n = "header_text" THEN h
                    ELSE IF n = "url" THEN u
                    ELSE <<T("en", B)>>])>>, 2) :
        h \in TagHeaders, u \in TagUrls}

InitTags ==
    /\ \E src \in TagSources, old \in {None} \cup {Some(t) : t \in OldTrees} :
          /\ feed = ParseJson(src)
          /\ source_json = Some(src)
          /\ old_feed = IF IsNone(old) THEN None ELSE Some(ParseJson(Get(old)))
          /\ dest_json = old
    /\ target_langs \in TagLangLists
    /\ always_translate_all = FALSE
    /\ pc = "start"
    /\ translation_map = EmptyDict
    /\ metrics = NoMetrics
    /\ all_needed_english = <<>>
    /\ calls = <<>>
    /\ translations_by_lang = None
    /\ run = 1
    /\ given = [feed |-> feed, source_json |-> source_json]
    /\ first = None
    /\ smartling = NoClient
    /\ rt = Idle

SpecTags == InitTags /\ [][NextReuse]_vars

---------------------------------------------------------------------------
(* lambda_handler.py: run_translation as a state machine.                  *)
(* rt.content is what the source URL serves and rt.dest what the            *)
(* destination key holds: None when there is no object, Some(body) when    *)
(* there is one, where body is None for bytes that do not parse and        *)
(* Some(tree) for a feed.  rt.writes lists the bodies handed to put_object. *)

\* faulty variant: the upload is decided on the new strings alone
UploadOnlyNewStrings(old, new_feed, m) ==
    IsNone(old) \/ IsNone(m) \/ Get(m).strings_translated > 0

\* faulty variant: a run without an old feed is uploaded only for new strings
UploadWithoutFirstRun(old, new_feed, m) ==
    \/ ~IsNone(old) /\ Get(old).header.timestamp # new_feed.header.timestamp
    \/ IsNone(m)
    \/ Get(m).strings_translated > 0

should_upload(old, new_feed, m) ==
    IF IsNone(old) THEN TRUE
    ELSE IF Get(old).header.timestamp # new_feed.header.timestamp THEN TRUE
    ELSE IF IsNone(m) THEN TRUE
    ELSE Get(m).strings_translated > 0

\* faulty variant: the exception is swallowed and the run goes on to the upload
Swallow(r, what, in_try) ==
    [r EXCEPT !.pc = "put", !.error = what]

\* an exception leaves run_translation; inside the try block the finally
\* clause closes the translator first
Raise(r, what, in_try) ==
    [r EXCEPT !.pc = "failed", !.error = what, !.closed = in_try]

\* the destination objects explored: feeds older than the source and feeds
\* with the source's timestamp
StoredTrees == {Tree(al, ts) : al \in OldAlertLists, ts \in {1, 2}}

NoFeed == [header |-> [timestamp |-> 0], entity |-> <<>>]

InitRun ==
    /\ \E src \in Sources, wellformed \in BOOLEAN, same \in BOOLEAN,
          dest \in {None, Some(None)} \cup {Some(Some(t)) : t \in StoredTrees} :
          LET body == IF wellformed THEN Some(src.tree) ELSE None IN
          rt = [pc |-> "invoked", same_url |-> same, fmt |-> src.fmt,
                content |-> body, dest |-> dest, stored |-> dest,
                read |-> "none", decision |-> "none", body |-> None,
                writes |-> <<>>, closed |-> FALSE, error |-> "none"]
    /\ feed = NoFeed
    /\ source_json = None
    /\ old_feed = None
    /\ dest_json = None
    /\ target_langs \in TargetLangLists
    /\ always_translate_all = FALSE
    /\ pc = "idle"
    /\ translation_map = EmptyDict
    /\ metrics = NoMetrics
    /\ all_needed_english = <<>>
    /\ calls = <<>>
    /\ translations_by_lang = None
    /\ run = 1
    /\ given = [feed |-> NoFeed, source_json |-> None]
    /\ first = None
    /\ smartling = NoClient

UnchangedByRun ==
    UNCHANGED <<feed, source_json, old_feed, dest_json, target_langs,
                always_translate_all, pc, translation_map, metrics,
                all_needed_english, calls, translations_by_lang, run, given,
                first, smartling>>

\* faulty variant: the locations are not compared and the source is fetched
SameUrlIgnored ==
    /\ rt.pc = "invoked"
    /\ rt.same_url
    /\ rt' = [rt EXCEPT !.pc = "parse"]
    /\ UnchangedByRun

\* if source_url == dest_url: raise ValueError
SameUrlRaises ==
    /\ rt.pc = "invoked"
    /\ rt.same_url
    /\ rt' = Raise(rt, "same_url", FALSE)
    /\ UnchangedByRun

FetchSource ==
    /\ rt.pc = "invoked"
    /\ ~rt.same_url
    /\ rt' = [rt EXCEPT !.pc = "parse"]
    /\ UnchangedByRun

\* get_object / client.get / raise_for_status raises
FetchSourceRaises ==
    /\ rt.pc = "invoked"
    /\ ~rt.same_url
    /\ rt' = Raise(rt, "fetch_source", FALSE)
    /\ UnchangedByRun

\* new_feed = FeedProcessor.parse(content, fmt); source_json = json.loads(...)
ParseSource ==
    /\ rt.pc = "parse"
    /\ ~IsNone(rt.content)
    /\ feed' = ParseJson(Get(rt.content))
    /\ source_json' = IF rt.fmt = "json" THEN rt.content ELSE None
    /\ given' = [feed |-> feed', source_json |-> source_json']
    /\ rt' = [rt EXCEPT !.pc = "fetch_old"]
    /\ UNCHANGED <<old_feed, dest_json, target_langs, always_translate_all, pc,
                   translation_map, metrics, all_needed_english, calls,
                   translations_by_lang, run, first, smartling>>

ParseSourceRaises ==
    /\ rt.pc = "parse"
    /\ IsNone(rt.content)
    /\ rt' = Raise(rt, "parse", FALSE)
    /\ UnchangedByRun

\* fetch_old_feed returns: the parsed object, or (None, None) for a missing
\* key (ClientError 404 / NoSuchKey) and for an object that does not parse
\* (except Exception); then the translator is constructed and process_feed
\* entered
FetchOldFeed ==
    /\ rt.pc = "fetch_old"
    /\ LET found == ~IsNone(rt.dest) /\ ~IsNone(Get(rt.dest)) IN
          /\ old_feed' = IF found THEN Some(ParseJson(Get(Get(rt.dest)))) ELSE None
          /\ dest_json' = IF found /\ rt.fmt = "json" THEN Get(rt.dest) ELSE None
    /\ rt' = [rt EXCEPT !.pc = "process",
                        !.read = IF IsNone(rt.dest) THEN "not_found"
                                 ELSE IF IsNone(Get(rt.dest)) THEN "unreadable"
                                 ELSE "found"]
    /\ pc' = "start"
    /\ UNCHANGED <<feed, source_json, target_langs, always_translate_all,
                   translation_map, metrics, all_needed_english, calls,
                   translations_by_lang, run, given, first, smartling>>

\* faulty variant: an unexpected exception of the read leaves run_translation
FetchOldFeedUnexpectedRaises ==
    /\ rt.pc = "fetch_old"
    /\ ~IsNone(rt.dest)
    /\ rt' = Raise([rt EXCEPT !.read = "unreadable"], "fetch_old", FALSE)
    /\ UnchangedByRun

\* any other exception while reading an existing object is logged and
\* (None, None) returned
FetchOldFeedUnexpected ==
    /\ rt.pc = "fetch_old"
    /\ ~IsNone(rt.dest)
    /\ old_feed' = None
    /\ dest_json' = None
    /\ rt' = [rt EXCEPT !.pc = "process", !.read = "unreadable"]
    /\ pc' = "start"
    /\ UNCHANGED <<feed, source_json, target_langs, always_translate_all,
                   translation_map, metrics, all_needed_english, calls,
                   translations_by_lang, run, given, first, smartling>>

\* a ClientError other than 404 / NoSuchKey is raised again
FetchOldFeedRaises ==
    /\ rt.pc = "fetch_old"
    /\ rt' = Raise([rt EXCEPT !.read = "error"], "fetch_old", FALSE)
    /\ UnchangedByRun

\* process_feed raised: finally closes the translator, the exception goes on
ProcessFeedRaised ==
    /\ rt.pc = "process"
    /\ pc = "raised"
    /\ rt' = Raise(rt, "provider", TRUE)
    /\ UnchangedByRun

\* if not should_upload(old_feed, new_feed, metrics): return
SkipUpload ==
    /\ rt.pc = "process"
    /\ pc = "done"
    /\ ~should_upload(old_feed, feed, Some(metrics))
    /\ rt' = [rt EXCEPT !.pc = "returned", !.decision = "skip", !.closed = TRUE]
    /\ UnchangedByRun

\* translated_content = FeedProcessor.serialize(new_feed, fmt, source_json)
Serialize ==
    /\ rt.pc = "process"
    /\ pc = "done"
    /\ should_upload(old_feed, feed, Some(metrics))
    /\ rt' = [rt EXCEPT !.pc = "put", !.decision = "upload",
                        !.body = Some(SerializeJson(feed, source_json))]
    /\ UnchangedByRun

SerializeRaises ==
    /\ rt.pc = "process"
    /\ pc = "done"
    /\ should_upload(old_feed, feed, Some(metrics))
    /\ rt' = Raise([rt EXCEPT !.decision = "upload"], "serialize", TRUE)
    /\ UnchangedByRun

\* s3.put_object(Bucket, Key, Body=translated_content, ContentType)
PutObject ==
    /\ rt.pc = "put"
    /\ rt' = [rt EXCEPT !.pc = "returned", !.closed = TRUE,
                        !.writes = Append(@, rt.body),
                        !.dest = Some(rt.body)]
    /\ UnchangedByRun

\* get_s3_parts or put_object raises
PutObjectRaises ==
    /\ rt.pc = "put"
    /\ rt' = Raise(rt, "put_object", TRUE)
    /\ UnchangedByRun

NextRun ==
    \/ SameUrlRaises
    \/ FetchSource
    \/ FetchSourceRaises
    \/ ParseSource
    \/ ParseSourceRaises
    \/ FetchOldFeed
    \/ FetchOldFeedUnexpected
    \/ FetchOldFeedRaises
    \/ Prepare
    \/ TranslateBatch
    \/ TranslateBatchMisaligned
    \/ TranslateBatchRaises
    \/ Apply
    \/ ProcessFeedRaised
    \/ SkipUpload
    \/ Serialize
    \/ SerializeRaises
    \/ PutObject
    \/ PutObjectRaises

SpecRun == InitRun /\ [][NextRun]_vars

---------------------------------------------------------------------------
(* process_feed on feeds whose alert carries a url field.  A URL is the    *)
(* sequence of the pieces of its text, so that the substring tests of      *)
(* _process_url are computed on it.                                        *)

PLAIN_URL == <<"h">>
QUERY_URL == <<"h", "?", "q">>
LOCALE_URL == <<"h", "?", "locale=", "en">>
\* http://x.com?mylocale=1: a parameter whose name ends in "locale"
OTHER_PARAM_URL == <<"h", "?", "my", "locale=", "1">>

EnglishUrls == {PLAIN_URL, QUERY_URL, LOCALE_URL, OTHER_PARAM_URL, <<>>}

\* url fields: an English URL, tagged or untagged, alone or with an explicit
\* entry for a language, and a field without an English entry
UrlFields ==
    {<<T(tag, u)>> : tag \in {"en", ""}, u \in EnglishUrls}
    \cup {<<T("en", u), T("es-419", <<"o">>)>> : u \in EnglishUrls}
    \cup {<<T("fr", <<"o">>)>>}

InitUrl ==
    /\ \E url \in UrlFields, withText \in BOOLEAN :
          feed = ParseJson(Tree(
                     <<IF withText
                       THEN Alert2("header_text", <<T("en", <<"a">>)>>, "url", url)
                       ELSE Alert1("url", url)>>, 2))
    /\ source_json = None
    /\ old_feed = None
    /\ dest_json = None
    /\ target_langs \in TargetLangLists
    /\ always_translate_all \in BOOLEAN
    /\ pc = "start"
    /\ translation_map = EmptyDict
    /\ metrics = NoMetrics
    /\ all_needed_english = <<>>
    /\ calls = <<>>
    /\ translations_by_lang = None
    /\ run = 1
    /\ given = [feed |-> feed, source_json |-> source_json]
    /\ first = None
    /\ smartling = NoClient
    /\ rt = Idle

SpecUrl == InitUrl /\ [][Next]_vars

---------------------------------------------------------------------------
(* process_feed on a JSON source whose alert has a header, a url and an    *)
(* enhanced field, against previously published feeds that hold            *)
(* translations of the URL's text, in a text field and in a url field.     *)

\* a header with a text of its own, and one whose text is the URL's
BypassHeaders == { <<T("en", A)>>, <<T("en", URL)>> }

BypassUrls ==
    { <<T("en", URL)>>, <<T("", QUERY_URL)>>, <<T("en", LOCALE_URL)>>,
      <<T("en", URL), T("es-419", OV)>> }

BypassSources ==
    {Tree(<<Some([n \in {"header_text", "url", "service_effect_text"} |->
                    IF n = "header_text" THEN h
                    ELSE IF n = "url" THEN u
                    ELSE <<T("en", B)>>])>>, 2) :
        h \in BypassHeaders, u \in BypassUrls}

BypassOldTrees ==
    { Tree(<<Alert2("header_text", <<T("en", URL), T("es-419", X), T("fr", Y)>>,
                    "url", <<T("en", URL), T("es-419", X), T("fr", Y)>>)>>, 1),
      Tree(<<Alert2("header_text", <<T("en", A), T("es-419", X)>>,
                    "url", <<T("en", QUERY_URL), T("es-419", X)>>)>>, 1) }

InitBypass ==
    /\ \E src \in BypassSources,
          old \in {None} \cup {Some(t) : t \in BypassOldTrees} :
          /\ feed = ParseJson(src)
          /\ source_json = Some(src)
          /\ old_feed = IF IsNone(old) THEN None ELSE Some(ParseJson(Get(old)))
          /\ dest_json = old
    /\ target_langs \in TargetLangLists
    /\ always_translate_all \in BOOLEAN
    /\ pc = "start"
    /\ translation_map = EmptyDict
    /\ metrics = NoMetrics
    /\ all_needed_english = <<>>
    /\ calls = <<>>
    /\ translations_by_lang = None
    /\ run = 1
    /\ given = [feed |-> feed, source_json |-> source_json]
    /\ first = None
    /\ smartling = NoClient
    /\ rt = Idle

SpecBypass == InitBypass /\ [][NextReuse]_vars

---------------------------------------------------------------------------
(* process_feed and serialize on JSON feeds whose entities and alerts      *)
(* carry keys the structured schema does not represent                     *)

\* entity-level keys unknown to the schema
EntityExtras ==
    { <<>>, [k \in {"x_entity"} |-> "v1"], [k \in {"x_entity"} |-> "v2"] }

\* alerts with an unknown key (effect_detail), with and without structured
\* fields and translatable enhanced fields
AlertsWithUnknownKeys ==
    { None,
      Some([n \in {"header_text", "effect_detail"} |->
               IF n = "header_text" THEN <<T("en", <<"a">>)>> ELSE <<"d1">>]),
      Some([n \in {"service_effect_text", "effect_detail"} |->
               IF n = "service_effect_text" THEN <<T("en", <<"b">>)>>
               ELSE <<"d2">>]) }

EnhancedTrees ==
    UNION {
      {[header |-> [timestamp |-> 2],
        entity |-> [i \in 1..n |->
                       [id |-> EntityIds[i], alert |-> al[i], extra |-> ex[i]]]] :
          al \in [1..n -> AlertsWithUnknownKeys], ex \in [1..n -> EntityExtras]} :
      n \in 1..MaxEntities}

InitJson ==
    /\ \E tree \in EnhancedTrees :
          /\ feed = ParseJson(tree)
          /\ source_json = Some(tree)
    /\ old_feed = None
    /\ dest_json = None
    /\ target_langs \in TargetLangLists
    /\ always_translate_all = FALSE
    /\ pc = "start"
    /\ translation_map = EmptyDict
    /\ metrics = NoMetrics
    /\ all_needed_english = <<>>
    /\ calls = <<>>
    /\ translations_by_lang = None
    /\ run = 1
    /\ given = [feed |-> feed, source_json |-> source_json]
    /\ first = None
    /\ smartling = NoClient
    /\ rt = Idle

SpecJson == InitJson /\ [][Next]_vars

---------------------------------------------------------------------------
(* smartling.py: SmartlingTranslator._translate_batch_single_lang with     *)
(* _do_translate_batch and _get_token, for one target language.            *)
(* smartling.log lists the status codes of the translation requests that   *)
(* were answered, smartling.sleeps the backoff windows slept in.           *)

max_attempts == 5
max_backoff == 30
initial_backoff == 1
\* the token is refreshed this many seconds before it expires
REFRESH_MARGIN == 60

\* statuses with which the provider rejects a request
Rejections == {401, 429, 500}

\* expiresIn values of the authentication response
ExpiresIn == {REFRESH_MARGIN, REFRESH_MARGIN + 2}

\* random.uniform(0, backoff_seconds): the ends of the window stand for it
Uniform0(window) == {0, window}

\* faulty variant: the window is not doubled after a sleep
HandleRejectionFixedWindow(r, status, sleep_for) ==
    IF status = 401
    THEN [r EXCEPT !.token = None, !.last_error = Some(status),
                   !.attempt = @ + 1, !.pc = "attempt"]
    ELSE IF status = 429 /\ r.attempt < max_attempts - 1
    THEN [r EXCEPT !.last_error = Some(status),
                   !.sleeps = Append(@, r.backoff_seconds),
                   !.sleep_for = sleep_for,
                   !.attempt = @ + 1, !.pc = "attempt"]
    ELSE [r EXCEPT !.last_error = Some(status), !.pc = "raised",
                   !.error = [kind |-> "status", status |-> status,
                              names_lang |-> FALSE]]

\* faulty variant: a retry after a 401 does not use up an attempt
HandleRejectionFree401(r, status, sleep_for) ==
    IF status = 401
    THEN [r EXCEPT !.token = None, !.last_error = Some(status),
                   !.pc = "attempt"]
    ELSE IF status = 429 /\ r.attempt < max_attempts - 1
    THEN [r EXCEPT !.last_error = Some(status),
                   !.sleeps = Append(@, r.backoff_seconds),
                   !.sleep_for = sleep_for,
                   !.backoff_seconds = Min(max_backoff, r.backoff_seconds * 2),
                   !.attempt = @ + 1, !.pc = "attempt"]
    ELSE [r EXCEPT !.last_error = Some(status), !.pc = "raised",
                   !.error = [kind |-> "status", status |-> status,
                              names_lang |-> FALSE]]

\* the except clause of the retry loop, for a rejection with this status;
\* sleep_for is the duration drawn if the handler sleeps
HandleRejection(r, status, sleep_for) ==
    IF status = 401
    THEN [r EXCEPT !.token = None, !.last_error = Some(status),
                   !.attempt = @ + 1, !.pc = "attempt"]
    ELSE IF status = 429 /\ r.attempt < max_attempts - 1
    THEN [r EXCEPT !.last_error = Some(status),
                   !.sleeps = Append(@, r.backoff_seconds),
                   !.sleep_for = sleep_for,
                   !.backoff_seconds = Min(max_backoff, r.backoff_seconds * 2),
                   !.attempt = @ + 1, !.pc = "attempt"]
    ELSE [r EXCEPT !.last_error = Some(status), !.pc = "raised",
                   !.error = [kind |-> "status", status |-> status,
                              names_lang |-> FALSE]]

UnchangedByClient ==
    UNCHANGED <<feed, source_json, old_feed, dest_json, target_langs,
                always_translate_all, pc, translation_map, metrics,
                all_needed_english, calls, translations_by_lang, run, given,
                first, rt>>

InitInline ==
    /\ \E lang \in {"es-419"} :
          smartling = [pc |-> "attempt", call |-> 1,
                       texts |-> <<A, B>>, lang |-> lang,
                       attempt |-> 0, now |-> 0,
                       token |-> None, token_expiry |-> 0,
                       auth_at |-> 0, expires_in |-> 0,
                       bearer |-> None, auths |-> 0,
                       backoff_seconds |-> initial_backoff,
                       last_error |-> None, log |-> <<>>, sleeps |-> <<>>,
                       sleep_for |-> 0,
                       items |-> None, result |-> None,
                       error |-> [kind |-> "none", status |-> 0,
                                  names_lang |-> FALSE]]
    /\ feed = NoFeed
    /\ source_json = None
    /\ old_feed = None
    /\ dest_json = None
    /\ target_langs = <<smartling.lang>>
    /\ always_translate_all = FALSE
    /\ pc = "translate"
    /\ translation_map = EmptyDict
    /\ metrics = NoMetrics
    /\ all_needed_english = smartling.texts
    /\ calls = <<>>
    /\ translations_by_lang = None
    /\ run = 1
    /\ given = [feed |-> NoFeed, source_json |-> None]
    /\ first = None
    /\ rt = Idle

\* for attempt in range(max_attempts): try: _do_translate_batch(...)
StartAttempt ==
    /\ smartling.pc = "attempt"
    /\ smartling.attempt < max_attempts
    /\ smartling' = [smartling EXCEPT !.pc = "get_token"]
    /\ UnchangedByClient

\* the loop ran out of attempts: the error raised after it
LoopExhausted ==
    /\ smartling.pc = "attempt"
    /\ smartling.attempt >= max_attempts
    /\ smartling' = [smartling EXCEPT !.pc = "raised",
          !.error = IF ~IsNone(smartling.last_error)
                    THEN [kind |-> "attempts_exceeded",
                          status |-> Get(smartling.last_error),
                          names_lang |-> TRUE]
                    ELSE [kind |-> "runtime", status |-> 0,
                          names_lang |-> FALSE]]
    /\ UnchangedByClient

\* time passes before _get_token reads the clock
Tick ==
    /\ smartling.pc = "get_token"
    /\ smartling.now < MaxClock
    /\ smartling' = [smartling EXCEPT !.now = @ + 1]
    /\ UnchangedByClient

\* faulty variant: a cached token is used whatever the clock says
TokenNeverExpires(r) == ~IsNone(r.token)

TokenValid(r) == ~IsNone(r.token) /\ r.now < r.token_expiry

\* if self._token and now < self._token_expiry: return self._token
UseCachedToken ==
    /\ smartling.pc = "get_token"
    /\ TokenValid(smartling)
    /\ smartling' = [smartling EXCEPT !.bearer = smartling.token, !.pc = "post"]
    /\ UnchangedByClient

\* the authentication request is sent
Authenticate ==
    /\ smartling.pc = "get_token"
    /\ ~TokenValid(smartling)
    /\ smartling' = [smartling EXCEPT !.pc = "auth", !.auths = @ + 1]
    /\ UnchangedByClient

AuthOk ==
    /\ smartling.pc = "auth"
    /\ \E expires_in \in ExpiresIn :
          smartling' = [smartling EXCEPT
              !.token = Some(smartling.auths),
              !.token_expiry = smartling.now + expires_in - REFRESH_MARGIN,
              !.auth_at = smartling.now,
              !.expires_in = expires_in,
              !.bearer = Some(smartling.auths),
              !.pc = "post"]
    /\ UnchangedByClient

\* resp.raise_for_status() in _get_token
AuthRejected ==
    /\ smartling.pc = "auth"
    /\ \E status \in Rejections,
          sleep_for \in Uniform0(smartling.backoff_seconds) :
          smartling' = HandleRejection(smartling, status, sleep_for)
    /\ UnchangedByClient

\* the translation request is answered with the items, listed in any order
PostOk ==
    /\ smartling.pc = "post"
    /\ \E kinds \in [DOMAIN smartling.texts -> {"tr", "null"}],
          order \in Orders(Len(smartling.texts)) :
          LET items == Listed(CompleteItems(kinds, smartling.lang,
                                            smartling.texts), order)
          IN  smartling' = [smartling EXCEPT
                  !.log = Append(@, 200),
                  !.items = Some(items),
                  !.result = Some(InlineResult(items)),
                  !.pc = "returned"]
    /\ UnchangedByClient

PostRejected ==
    /\ smartling.pc = "post"
    /\ \E status \in Rejections,
          sleep_for \in Uniform0(smartling.backoff_seconds) :
          smartling' = HandleRejection(
              [smartling EXCEPT !.log = Append(@, status)], status, sleep_for)
    /\ UnchangedByClient

\* any other exception of the request is logged and raised again
PostFails ==
    /\ smartling.pc = "post"
    /\ smartling' = [smartling EXCEPT !.pc = "raised",
          !.error = [kind |-> "exception", status |-> 0, names_lang |-> FALSE]]
    /\ UnchangedByClient

\* translate_batch is called again on the same client: the token, its
\* expiry and the clock are what the earlier call left
CallAgain ==
    /\ smartling.pc = "returned"
    /\ smartling.call < MaxCalls
    /\ smartling' = [smartling EXCEPT
          !.pc = "attempt", !.call = @ + 1, !.attempt = 0,
          !.backoff_seconds = initial_backoff, !.last_error = None,
          !.log = <<>>, !.sleeps = <<>>, !.sleep_for = 0, !.bearer = None,
          !.items = None, !.result = None]
    /\ UnchangedByClient

NextInline ==
    \/ CallAgain
    \/ StartAttempt
    \/ LoopExhausted
    \/ Tick
    \/ UseCachedToken
    \/ Authenticate
    \/ AuthOk
    \/ AuthRejected
    \/ PostOk
    \/ PostRejected
    \/ PostFails

SpecInline == InitInline /\ [][NextInline]_vars

---------------------------------------------------------------------------
(* processor.py: process_feed holding its semaphore around translate_batch, *)
(* and smartling.py: translate_batch gathering one                          *)
(* _translate_batch_single_lang task per target language on one client.    *)
(* A task runs from one await to the next in a single step.  The token     *)
(* lock is an asyncio.Lock: release wakes the first waiter, which takes     *)
(* the lock when it is next scheduled; a task that finds waiters queues    *)
(* behind them.  The clock reads 0 during the call.                        *)

\* the target language lists and concurrency limits explored
FanoutLangLists == {<<"es-419">>, <<"es-419", "fr">>, <<"es-419", "fr", "pt">>}
ConcurrencyLimits == {1, 2}

\* the rejections explored: 401 for a request bearing the token cached
\* before the call, 500 for any request
STALE_TOKEN == 0

NewTask ==
    [pc |-> "start", attempt |-> 0, bearer |-> None, waited |-> None,
     token |-> None, last_error |-> None, backoff_seconds |-> initial_backoff,
     sleeps |-> <<>>, sleep_for |-> 0,
     error |-> [kind |-> "none", status |-> 0, names_lang |-> FALSE]]

\* faulty variant: the lock is given up while the authentication is in flight
InsideLockUnguarded(c, t) ==
    IF TokenValid(c)
    THEN [c EXCEPT !.holder = None, !.tasks[t].pc = "post",
                   !.tasks[t].bearer = c.token]
    ELSE [c EXCEPT !.holder = None, !.auths = @ + 1, !.tasks[t].pc = "auth"]

\* _get_token with the lock held, up to its return or its await
InsideLock(c, t) ==
    IF TokenValid(c)
    THEN [c EXCEPT !.holder = None, !.tasks[t].pc = "post",
                   !.tasks[t].bearer = c.token]
    ELSE [c EXCEPT !.holder = Some(t), !.auths = @ + 1, !.tasks[t].pc = "auth"]

\* async with self._token_lock: the lock is taken at once when it is free
\* and nobody waits for it
EnterGetToken(c, t) ==
    IF IsNone(c.holder) /\ c.waiters = <<>>
    THEN InsideLock(c, t)
    ELSE [c EXCEPT !.waiters = Append(@, t), !.tasks[t].pc = "wait",
                   !.tasks[t].waited =
                       IF IsNone(c.holder) THEN None ELSE Some(c.auths)]

\* the except clause and, after continue, the next attempt up to its await
AfterRejection(c, t, status) ==
    LET out == HandleRejection([c.tasks[t] EXCEPT !.token = c.token], status, 0)
        c1 == [c EXCEPT !.token = out.token,
                        !.tasks[t] = [out EXCEPT !.token = None]]
    IN  IF out.pc = "raised" THEN c1
        ELSE IF out.attempt < max_attempts THEN EnterGetToken(c1, t)
        ELSE [c1 EXCEPT !.tasks[t].pc = "raised",
                        !.tasks[t].error = [kind |-> "attempts_exceeded",
                                            status |-> status,
                                            names_lang |-> TRUE]]

InitFanout ==
    /\ \E langs \in FanoutLangLists, limit \in ConcurrencyLimits,
          cached \in BOOLEAN :
          smartling = [pc |-> "gather", langs |-> langs,
                       concurrency_limit |-> limit, permits |-> limit - 1,
                       now |-> 0,
                       token |-> IF cached THEN Some(STALE_TOKEN) ELSE None,
                       token_expiry |-> IF cached THEN 2 ELSE 0,
                       holder |-> None, waiters |-> <<>>, auths |-> 0,
                       obtained |-> {},
                       tasks |-> [t \in Range(langs) |-> NewTask]]
    /\ feed = NoFeed
    /\ source_json = None
    /\ old_feed = None
    /\ dest_json = None
    /\ target_langs = smartling.langs
    /\ always_translate_all = FALSE
    /\ pc = "translate"
    /\ translation_map = EmptyDict
    /\ metrics = NoMetrics
    /\ all_needed_english = <<A>>
    /\ calls = <<>>
    /\ translations_by_lang = None
    /\ run = 1
    /\ given = [feed |-> NoFeed, source_json |-> None]
    /\ first = None
    /\ rt = Idle

Started(c) == \A t \in DOMAIN c.tasks : c.tasks[t].pc # "start"

\* the tasks gather created start in the order of target_langs
TaskStart ==
    /\ \E i \in DOMAIN smartling.langs :
          /\ smartling.tasks[smartling.langs[i]].pc = "start"
          /\ \A j \in 1..(i - 1) : smartling.tasks[smartling.langs[j]].pc # "start"
          /\ smartling' = EnterGetToken(smartling, smartling.langs[i])
    /\ UnchangedByClient

\* a woken waiter takes the lock
TaskResume ==
    /\ smartling.waiters # <<>>
    /\ IsNone(smartling.holder)
    /\ smartling' = InsideLock([smartling EXCEPT !.waiters = Tail(@)],
                               Head(smartling.waiters))
    /\ UnchangedByClient

TaskAuthOk ==
    /\ Started(smartling)
    /\ \E t \in DOMAIN smartling.tasks, expires_in \in ExpiresIn :
          /\ smartling.tasks[t].pc = "auth"
          /\ smartling' = [smartling EXCEPT
                !.token = Some(smartling.auths),
                !.token_expiry = smartling.now + expires_in - REFRESH_MARGIN,
                !.obtained = @ \cup {smartling.auths},
                !.holder = None,
                !.tasks[t].pc = "post",
                !.tasks[t].bearer = Some(smartling.auths)]
    /\ UnchangedByClient

TaskAuthRejected ==
    /\ Started(smartling)
    /\ \E t \in DOMAIN smartling.tasks :
          /\ smartling.tasks[t].pc = "auth"
          /\ smartling' = AfterRejection([smartling EXCEPT !.holder = None], t, 500)
    /\ UnchangedByClient

TaskPostOk ==
    /\ Started(smartling)
    /\ \E t \in DOMAIN smartling.tasks :
          /\ smartling.tasks[t].pc = "post"
          /\ smartling' = [smartling EXCEPT !.tasks[t].pc = "returned"]
    /\ UnchangedByClient

TaskPostRejected ==
    /\ Started(smartling)
    /\ \E t \in DOMAIN smartling.tasks, status \in {401, 500} :
          /\ smartling.tasks[t].pc = "post"
          /\ status = 401 => smartling.tasks[t].bearer = Some(STALE_TOKEN)
          /\ smartling' = AfterRejection(smartling, t, status)
    /\ UnchangedByClient

NextFanout ==
    \/ TaskStart
    \/ TaskResume
    \/ TaskAuthOk
    \/ TaskAuthRejected
    \/ TaskPostOk
    \/ TaskPostRejected

SpecFanout == InitFanout /\ [][NextFanout]_vars

---------------------------------------------------------------------------
(* smartling.py: SmartlingJobBatchesTranslator.translate_batch and         *)
(* SmartlingFileTranslator.translate_batch, one call.  smartling holds the *)
(* position of the call (pc), the request in flight, the payload of the    *)
(* last status poll and the state of each per-language download.           *)

AsyncStrategies == {"job_batch", "file"}

AsyncLangLists == {<<"es-419">>, <<"es-419", "fr">>}

\* the requests sent before the first poll, in the order of the code
Steps(strategy) ==
    IF strategy = "job_batch"
    THEN <<"jobs", "batches", "upload">>
    ELSE <<"upload", "mt">>

\* values of a field of the status payload; "" is an empty string
StatusValues == {"", "IN_PROGRESS", "COMPLETED", "FAILED"}

\* resp.json()["response"]["data"] of a status poll: each field is absent
\* or holds a value
StatusPayloads ==
    [status : {None} \cup {Some(v) : v \in StatusValues},
     state : {None} \cup {Some(v) : v \in StatusValues}]

\* batch_data.get("status");
\* status_data.get("status") or status_data.get("state")
StatusOf(strategy, data) ==
    IF strategy = "job_batch"
    THEN data.status
    ELSE IF ~IsNone(data.status) /\ Get(data.status) # ""
    THEN data.status
    ELSE data.state

NoError == [kind |-> "none", status |-> 0]

\* what a request raises when it is not answered with a 2xx:
\* raise_for_status() on an error status, or the client's timeout of 10 s
AsyncFailures ==
    {[kind |-> "HTTPStatusError", status |-> s] : s \in {401, 429, 500}}
        \cup {[kind |-> "TimeoutException", status |-> 0]}

\* the kinds of request sent so far, in the order of their first sending
Sent(c, kind) ==
    IF kind \in Range(c.sent) THEN c.sent ELSE Append(c.sent, kind)

\* the first request after the token: headers are built once, from it
FirstRequest(c, token) ==
    [c EXCEPT !.bearer = token, !.pc = "step", !.step = 1,
              !.sent = Sent(c, Steps(c.strategy)[1])]

\* faulty variant: a FAILED status ends the polling like COMPLETED
AfterStatusIgnoringFailure(c, data) ==
    LET status == StatusOf(c.strategy, data) IN
    IF status \in {Some("COMPLETED"), Some("FAILED")}
    THEN [c EXCEPT !.data = Some(data), !.pc = "download",
                   !.sent = Sent(c, "download"),
                   !.downloads = [l \in Range(c.langs) |-> "flight"]]
    ELSE [c EXCEPT !.data = Some(data), !.pc = "sleep"]

\* faulty variant: the polling is given up when the payload has no status
AfterStatusGivingUp(c, data) ==
    LET status == StatusOf(c.strategy, data) IN
    IF status = Some("COMPLETED")
    THEN [c EXCEPT !.data = Some(data), !.pc = "download",
                   !.sent = Sent(c, "download"),
                   !.downloads = [l \in Range(c.langs) |-> "flight"]]
    ELSE IF status = Some("FAILED") \/ IsNone(status)
    THEN [c EXCEPT !.data = Some(data), !.pc = "raised",
                   !.error = [kind |-> "RuntimeError", payload |-> data]]
    ELSE [c EXCEPT !.data = Some(data), !.pc = "sleep"]

\* the body of the polling loop after a 2xx answer: COMPLETED leaves the
\* loop and gather starts one download per language, FAILED raises with
\* the payload, anything else sleeps
AfterStatus(c, data) ==
    LET status == StatusOf(c.strategy, data) IN
    IF status = Some("COMPLETED")
    THEN [c EXCEPT !.data = Some(data), !.pc = "download",
                   !.sent = Sent(c, "download"),
                   !.downloads = [l \in Range(c.langs) |-> "flight"]]
    ELSE IF status = Some("FAILED")
    THEN [c EXCEPT !.data = Some(data), !.pc = "raised",
                   !.error = [kind |-> "RuntimeError", payload |-> data]]
    ELSE [c EXCEPT !.data = Some(data), !.pc = "sleep"]

\* a request of the call raises: nothing catches it, translate_batch ends
AsyncRaise(c, error) == [c EXCEPT !.pc = "raised", !.error = error]

InitAsync ==
    /\ \E strategy \in AsyncStrategies, langs \in AsyncLangLists,
          cached \in BOOLEAN :
          smartling = [pc |-> "start", strategy |-> strategy, langs |-> langs,
                       now |-> 0,
                       token |-> IF cached THEN Some(STALE_TOKEN) ELSE None,
                       token_expiry |-> IF cached THEN 2 ELSE 0,
                       bearer |-> None, step |-> 0, sent |-> <<>>,
                       data |-> None,
                       downloads |-> [l \in Range(langs) |-> "none"],
                       error |-> NoError]
    /\ feed = NoFeed
    /\ source_json = None
    /\ old_feed = None
    /\ dest_json = None
    /\ target_langs = smartling.langs
    /\ always_translate_all = FALSE
    /\ pc = "translate"
    /\ translation_map = EmptyDict
    /\ metrics = NoMetrics
    /\ all_needed_english = <<A>>
    /\ calls = <<>>
    /\ translations_by_lang = None
    /\ run = 1
    /\ given = [feed |-> NoFeed, source_json |-> None]
    /\ first = None
    /\ rt = Idle

\* token = await self._get_token()
AsyncStart ==
    /\ smartling.pc = "start"
    /\ smartling' = IF TokenValid(smartling)
                    THEN FirstRequest(smartling, smartling.token)
                    ELSE [smartling EXCEPT !.pc = "auth"]
    /\ UnchangedByClient

AsyncAuthOk ==
    /\ smartling.pc = "auth"
    /\ \E expires_in \in ExpiresIn :
          smartling' = FirstRequest(
              [smartling EXCEPT
                  !.token = Some(1),
                  !.token_expiry = smartling.now + expires_in - REFRESH_MARGIN],
              Some(1))
    /\ UnchangedByClient

AsyncAuthRejected ==
    /\ smartling.pc = "auth"
    /\ \E error \in AsyncFailures : smartling' = AsyncRaise(smartling, error)
    /\ UnchangedByClient

\* a request before the polling is answered with a 2xx: the next one is sent
StepOk ==
    /\ smartling.pc = "step"
    /\ smartling' =
          IF smartling.step < Len(Steps(smartling.strategy))
          THEN [smartling EXCEPT
                  !.step = @ + 1,
                  !.sent = Sent(smartling,
                                Steps(smartling.strategy)[smartling.step + 1])]
          ELSE [smartling EXCEPT !.pc = "status",
                                 !.sent = Sent(smartling, "status")]
    /\ UnchangedByClient

StepRejected ==
    /\ smartling.pc = "step"
    /\ \E error \in AsyncFailures : smartling' = AsyncRaise(smartling, error)
    /\ UnchangedByClient

StatusOk ==
    /\ smartling.pc = "status"
    /\ \E data \in StatusPayloads : smartling' = AfterStatus(smartling, data)
    /\ UnchangedByClient

StatusRejected ==
    /\ smartling.pc = "status"
    /\ \E error \in AsyncFailures : smartling' = AsyncRaise(smartling, error)
    /\ UnchangedByClient

\* await asyncio.sleep(1) is over: the loop sends the next poll
PollAgain ==
    /\ smartling.pc = "sleep"
    /\ smartling' = [smartling EXCEPT !.pc = "status"]
    /\ UnchangedByClient

\* a download is answered with a JSON list; the last one ends gather
DownloadOk ==
    /\ smartling.pc = "download"
    /\ \E l \in DOMAIN smartling.downloads :
          /\ smartling.downloads[l] = "flight"
          /\ LET d == [smartling.downloads EXCEPT ![l] = "done"] IN
             smartling' = [smartling EXCEPT
                 !.downloads = d,
                 !.pc = IF \A k \in DOMAIN d : d[k] = "done"
                        THEN "returned" ELSE "download"]
    /\ UnchangedByClient

\* if not isinstance(result, list): raise ValueError
DownloadNotList ==
    /\ smartling.pc = "download"
    /\ \E l \in DOMAIN smartling.downloads :
          /\ smartling.downloads[l] = "flight"
          /\ smartling' = AsyncRaise(
                [smartling EXCEPT !.downloads[l] = "raised"],
                [kind |-> "ValueError", lang |-> l])
    /\ UnchangedByClient

DownloadRejected ==
    /\ smartling.pc = "download"
    /\ \E l \in DOMAIN smartling.downloads, error \in AsyncFailures :
          /\ smartling.downloads[l] = "flight"
          /\ smartling' = AsyncRaise(
                [smartling EXCEPT !.downloads[l] = "raised"], error)
    /\ UnchangedByClient

\* the answers of the provider and of the client's timeout
AsyncAnswered ==
    \/ AsyncAuthOk
    \/ AsyncAuthRejected
    \/ StepOk
    \/ StepRejected
    \/ StatusOk
    \/ StatusRejected
    \/ DownloadOk
    \/ DownloadNotList
    \/ DownloadRejected

NextAsync ==
    \/ AsyncStart
    \/ PollAgain
    \/ AsyncAnswered

SpecAsync == InitAsync /\ [][NextAsync]_vars

\* the event loop runs a task that is ready, the timer of the sleep fires,
\* and the client's timeout ends every request that is not answered
SpecAsyncFair ==
    /\ SpecAsync
    /\ WF_vars(AsyncStart)
    /\ WF_vars(PollAgain)
    /\ WF_vars(AsyncAnswered)

---------------------------------------------------------------------------
(* processor.py: _merge_enhanced_fields as a function of two trees.  rt    *)
(* holds the derived tree (current), the overlay (original) and, once the  *)
(* merge has run, the derived tree as the merge left it.                   *)

\* the keys of an entity other than id and alert: none, or one extension
\* key whose value tells the tree it comes from
MergeExtras(v) == {<<>>, [k \in {"x_extension"} |-> v]}

\* an alert is absent or holds some of a structured and an enhanced field
MergeAlerts(text) ==
    {None}
    \cup {Some([k \in keys |-> <<T("en", text)>>]) :
             keys \in (SUBSET {"header_text", "service_effect_text"}) \ {{}}}

MergeEntities(eid, v, text) ==
    {[id |-> eid, alert |-> alert, extra |-> extra] :
        alert \in MergeAlerts(text), extra \in MergeExtras(v)}

\* the trees with one entity per id of ids, in that order
MergeTrees(ids, v, text) ==
    {[header |-> [timestamp |-> 2], entity |-> entity] :
        entity \in {es \in [DOMAIN ids -> UNION {MergeEntities(ids[i], v, text) :
                                                    i \in DOMAIN ids}] :
                       \A i \in DOMAIN ids : es[i].id = ids[i]}}

DerivedTrees ==
    MergeTrees(<<"e1">>, "derived", A) \cup MergeTrees(<<"e1", "e2">>, "derived", A)

OriginalTrees ==
    MergeTrees(<<>>, "original", B)
    \cup MergeTrees(<<"e1">>, "original", B)
    \cup MergeTrees(<<"e2", "e1">>, "original", B)
    \cup MergeTrees(<<"e1", "e3">>, "original", B)

InitMerge ==
    /\ \E current \in DerivedTrees, original \in OriginalTrees :
          rt = [pc |-> "merge", current |-> current, original |-> original,
                merged |-> None]
    /\ feed = NoFeed
    /\ source_json = None
    /\ old_feed = None
    /\ dest_json = None
    /\ target_langs = <<"es-419">>
    /\ always_translate_all = FALSE
    /\ pc = "idle"
    /\ translation_map = EmptyDict
    /\ metrics = NoMetrics
    /\ all_needed_english = <<>>
    /\ calls = <<>>
    /\ translations_by_lang = None
    /\ run = 1
    /\ given = [feed |-> NoFeed, source_json |-> None]
    /\ first = None
    /\ smartling = NoClient

\* FeedProcessor._merge_enhanced_fields(current_json, original_json)
MergeEnhancedFields ==
    /\ rt.pc = "merge"
    /\ rt' = [rt EXCEPT !.pc = "merged",
                        !.merged = Some(_merge_enhanced_fields(rt.current,
                                                               rt.original))]
    /\ UnchangedByRun

SpecMerge == InitMerge /\ [][MergeEnhancedFields]_vars

---------------------------------------------------------------------------
(* lambda_handler.py: lambda_handler, and config.py: Settings.  A location *)
(* or key is the sequence of the pieces of its text; an escape such as     *)
(* "%20" is one piece.  rt holds the event, the settings object and what   *)
(* the handler did.                                                        *)

NO_TEXT == <<>>

\* the attributes a Settings object has: those __init__ assigns and the two
\* properties
SettingsAttributes ==
    {"smartling_user_id", "smartling_user_secret", "smartling_user_secret_arn",
     "smartling_account_uid", "smartling_project_id",
     "smartling_job_name_template", "source_url", "destination_bucket_urls",
     "target_languages", "concurrency_limit", "log_level",
     "destination_bucket_url_list", "target_lang_list"}

\* Settings() under an environment with these SOURCE_URL and
\* DESTINATION_BUCKET_URLS
Settings(source_url, destination_bucket_urls) ==
    [source_url |-> source_url,
     destination_bucket_urls |-> destination_bucket_urls,
     target_languages |-> <<"es-419">>,
     log_level |-> <<"NOTICE">>]

ConfiguredSources == {NO_TEXT, <<"s3://", "cfg", "/", "feed.pb">>}
ConfiguredDestinations ==
    {NO_TEXT, <<"s3://", "dest", "/", "feed.pb">>,
     <<"s3://", "cfg", "/", "feed.pb">>}

ObjectKeys ==
    {<<"a.pb">>, <<"a", "%20", "b.pb">>, <<"a", "+", "b.pb">>,
     <<"a", "%2B", "b.pb">>}

S3Record(bucket, key) == [s3 |-> Some([bucket |-> bucket, key |-> key])]
OtherRecord == [s3 |-> None]

\* the events explored: without "Records", with an empty list, with a first
\* record of another service, and with one or two storage records
Events ==
    {[Records |-> None], [Records |-> Some(<<>>)],
     [Records |-> Some(<<OtherRecord>>)]}
    \cup {[Records |-> Some(<<S3Record(b, k)>> \o more)] :
             b \in {"b1", "b2"}, k \in ObjectKeys,
             more \in {<<>>, <<S3Record("b3", <<"z.pb">>)>>}}

\* urllib.parse.unquote_plus: "+" becomes a space, then the escapes are decoded
unquote_plus(key) ==
    [i \in DOMAIN key |->
        LET piece == IF key[i] = "+" THEN " " ELSE key[i] IN
        IF piece = "%20" THEN " "
        ELSE IF piece = "%2B" THEN "+"
        ELSE piece]

HandlerRaised(r, what) == [r EXCEPT !.pc = "raised", !.error = what]

\* faulty variant: the run is started without the checks of the locations
HandlerOutcomeUnchecked(r) ==
    [r EXCEPT !.pc = "started",
              !.source_url = Some(r.settings.source_url),
              !.dest_url = Some(r.settings.destination_bucket_urls)]

\* lambda_handler(event, context) up to the call of run_translation
HandlerOutcome(r) ==
    LET event == r.event
        settings == r.settings
    IN  IF ~IsNone(event.Records) /\ Get(event.Records) = <<>>
        THEN HandlerRaised(r, "IndexError")
        ELSE
        LET from_event == /\ ~IsNone(event.Records)
                          /\ ~IsNone(Get(event.Records)[1].s3)
            source_url ==
                IF from_event
                THEN LET s3 == Get(Get(event.Records)[1].s3) IN
                     <<"s3://", s3.bucket, "/">> \o unquote_plus(s3.key)
                ELSE settings.source_url
        IN  IF source_url = NO_TEXT
            THEN HandlerRaised(r, "ValueError: no source")
            ELSE IF "destination_bucket_url" \notin SettingsAttributes
            THEN HandlerRaised(r, "AttributeError")
            ELSE IF settings["destination_bucket_url"] = NO_TEXT
            THEN HandlerRaised(r, "ValueError: no destination")
            ELSE [r EXCEPT !.pc = "started",
                           !.source_url = Some(source_url),
                           !.dest_url = Some(settings["destination_bucket_url"])]

InitHandler ==
    /\ \E event \in Events, source \in ConfiguredSources,
          destination \in ConfiguredDestinations :
          rt = [pc |-> "handler", event |-> event,
                settings |-> Settings(source, destination),
                source_url |-> None, dest_url |-> None, error |-> "none"]
    /\ feed = NoFeed
    /\ source_json = None
    /\ old_feed = None
    /\ dest_json = None
    /\ target_langs = rt.settings.target_languages
    /\ always_translate_all = FALSE
    /\ pc = "idle"
    /\ translation_map = EmptyDict
    /\ metrics = NoMetrics
    /\ all_needed_english = <<>>
    /\ calls = <<>>
    /\ translations_by_lang = None
    /\ run = 1
    /\ given = [feed |-> NoFeed, source_json |-> None]
    /\ first = None
    /\ smartling = NoClient

LambdaHandler ==
    /\ rt.pc = "handler"
    /\ rt' = HandlerOutcome(rt)
    /\ UnchangedByRun

SpecHandler == InitHandler /\ [][LambdaHandler]_vars

---------------------------------------------------------------------------
(* Vocabulary of the properties *)

\* the translatable fields of a feed or raw tree, as <<entity index, name>>
FieldLocs(tree, names) ==
    {loc \in (DOMAIN tree.entity) \X names :
        /\ ~IsNone(tree.entity[loc[1]].alert)
        /\ loc[2] \in DOMAIN Get(tree.entity[loc[1]].alert)}

At(tree, loc) == Get(tree.entity[loc[1]].alert)[loc[2]]

Structured == Range(PB_FIELDS)
Enhanced == Range(ENHANCED_FIELDS)

\* the texts of the entries tagged L, in order
RECURSIVE Tagged(_, _)
Tagged(ts, L) ==
    IF ts = <<>> THEN <<>>
    ELSE (IF Head(ts).language = L THEN <<Head(ts).text>> ELSE <<>>)
         \o Tagged(Tail(ts), L)

Tags(ts) == {ts[i].language : i \in DOMAIN ts}

\* the English text of a field: its entry tagged "en" or untagged
HasEnglish(ts) == \E i \in DOMAIN ts : ts[i].language \in {"", "en"}
English(ts) == ts[CHOOSE i \in DOMAIN ts : ts[i].language \in {"", "en"}].text

\* empty or only whitespace
OnlyWhitespace(text) == \A i \in DOMAIN text : text[i] = " "

Targets == Range(target_langs)

\* every translatable field of the new feed, before and after the run:
\* [before, after] for the structured fields and the overlay's enhanced fields
FieldPairs ==
    {[before |-> At(given.feed, loc), after |-> At(feed, loc)] :
        loc \in FieldLocs(given.feed, Structured)}
    \cup
    (IF IsNone(given.source_json) THEN {}
     ELSE {[before |-> At(Get(given.source_json), loc),
            after  |-> At(Get(source_json), loc)] :
              loc \in FieldLocs(Get(given.source_json), Enhanced)})

\* the texts requested from the provider in this run
Requested == UNION {Range(calls[i].texts) : i \in DOMAIN calls}

---------------------------------------------------------------------------
(* C5: a field that already carries an entry for a target language keeps   *)
(* that entry's text and gets no second entry for the language, whatever   *)
(* the old feed holds and the provider returns.                            *)

C5_NeverOverwrite ==
    pc = "done" =>
        \A p \in FieldPairs : \A L \in Targets :
            Tagged(p.before, L) # <<>> => Tagged(p.after, L) = Tagged(p.before, L)

\* a field with an explicit entry for which the map holds another translation
C5_Witness ==
    /\ pc = "done"
    /\ \E p \in FieldPairs : \E L \in Targets :
          /\ Tagged(p.before, L) # <<>>
          /\ HasEnglish(p.before)
          /\ HasKey(translation_map, English(p.before))
          /\ L \in DOMAIN translation_map.val[English(p.before)]
          /\ translation_map.val[English(p.before)][L] # Tagged(p.before, L)[1]
          /\ translation_map.val[English(p.before)][L] # English(p.before)

---------------------------------------------------------------------------
(* C7: a field whose English text is empty or only whitespace carries the  *)
(* empty string for every target language it lacked; such a text is never  *)
(* sent to the provider; a feed with only such texts causes no call.       *)

EnglishTexts == {English(p.before) : p \in {q \in FieldPairs : HasEnglish(q.before)}}

C7_BlankSource ==
    /\ \A text \in Requested : ~OnlyWhitespace(text)
    /\ (\A text \in EnglishTexts : OnlyWhitespace(text)) => calls = <<>>
    /\ pc = "done" =>
          \A p \in FieldPairs :
              (HasEnglish(p.before) /\ OnlyWhitespace(English(p.before))) =>
                  \A L \in Targets :
                      Tagged(p.before, L) = <<>> => Tagged(p.after, L) = <<EMPTY>>

\* a whitespace field and an empty field got "", while other texts were sent
C7_Witness ==
    /\ pc = "done"
    /\ calls # <<>>
    /\ \E p, q \in FieldPairs : \E L \in Targets :
          /\ HasEnglish(p.before) /\ English(p.before) = SPACE
          /\ HasEnglish(q.before) /\ English(q.before) = EMPTY
          /\ Tagged(p.before, L) = <<>> /\ Tagged(p.after, L) = <<EMPTY>>
          /\ Tagged(q.before, L) = <<>> /\ Tagged(q.after, L) = <<EMPTY>>

---------------------------------------------------------------------------
(* C8: translate_batch is called at most once per run, no English text     *)
(* occurs twice in its request list, and all fields sharing an English     *)
(* text that lacked a target language get the same entry for it, the one   *)
(* the single result holds for that text.                                  *)

NoDuplicates(s) == \A i, j \in DOMAIN s : s[i] = s[j] => i = j

\* what the provider returned for (text, L) in this run: None when not asked
Returned(text, L) ==
    IF calls = <<>> \/ IsNone(translations_by_lang) THEN None
    ELSE LET texts == calls[1].texts
             idx == {i \in DOMAIN texts : texts[i] = text}
         IN  IF idx = {} \/ L \notin DOMAIN Get(translations_by_lang) THEN None
             ELSE Get(translations_by_lang)[L][CHOOSE i \in idx : TRUE]

C8_ContentAddressing ==
    /\ Len(calls) <= 1
    /\ \A i \in DOMAIN calls : NoDuplicates(calls[i].texts)
    /\ pc = "done" =>
          \A p \in FieldPairs : \A L \in Targets :
              (HasEnglish(p.before) /\ Tagged(p.before, L) = <<>>) =>
                  /\ \A q \in FieldPairs :
                        (/\ HasEnglish(q.before)
                         /\ English(q.before) = English(p.before)
                         /\ Tagged(q.before, L) = <<>>)
                        => Tagged(q.after, L) = Tagged(p.after, L)
                  /\ LET r == Returned(English(p.before), L) IN
                        (~IsNone(r) /\ Get(r) # English(p.before))
                        => Tagged(p.after, L) = <<Get(r)>>

\* two different fields share a requested text and both got its translation
C8_Witness ==
    /\ pc = "done"
    /\ Len(calls) = 1
    /\ \E l1, l2 \in FieldLocs(given.feed, Structured) : \E L \in Targets :
          /\ l1[1] # l2[1]
          /\ HasEnglish(At(given.feed, l1)) /\ HasEnglish(At(given.feed, l2))
          /\ English(At(given.feed, l1)) = English(At(given.feed, l2))
          /\ English(At(given.feed, l1)) \in Requested
          /\ Tagged(At(given.feed, l1), L) = <<>>
          /\ Tagged(At(given.feed, l2), L) = <<>>
          /\ Tagged(At(feed, l1), L) = <<MockTranslation(L, English(At(given.feed, l1)))>>
          /\ Tagged(At(feed, l2), L) = Tagged(At(feed, l1), L)

---------------------------------------------------------------------------
(* What the previously published feed holds *)

\* the canonical form of a language tag (legacy provider codes map to it)
Canonical(tag) == IF tag = "es-LA" THEN "es-419" ELSE tag

\* every TranslatedString of the previously published feed and tree
OldFields ==
    (IF IsNone(old_feed) THEN {}
     ELSE {At(Get(old_feed), loc) : loc \in FieldLocs(Get(old_feed), Structured)})
    \cup
    (IF IsNone(dest_json) THEN {}
     ELSE {At(Get(dest_json), loc) :
              loc \in FieldLocs(Get(dest_json), Structured \cup Enhanced)})

\* the translations of an English text into language L that the old feed
\* holds: the entries tagged L, or tagged with a legacy code of L, of the
\* old fields with that English text
OldTranslations(text, L) ==
    UNION {{ts[i].text : i \in {j \in DOMAIN ts :
                                  /\ ts[j].language \notin {"", "en"}
                                  /\ \/ ts[j].language = L
                                     \/ Canonical(ts[j].language) = L}} :
           ts \in {f \in OldFields : HasEnglish(f) /\ English(f) = text}}

OldHoldsAll(text) == \A L \in Targets : OldTranslations(text, L) # {}

\* the old feed holds a translation of the text under the legacy tag
LegacyHeld(text) ==
    \E ts \in OldFields :
        /\ HasEnglish(ts) /\ English(ts) = text
        /\ Tagged(ts, "es-LA") # <<>>

---------------------------------------------------------------------------
(* C2: in the default mode a text which the old feed translates into every *)
(* target language is not sent to the provider, and every field with that  *)
(* text that lacked a target language carries exactly the old feed's       *)
(* translation for it.                                                     *)

C2_Reuse ==
    ~always_translate_all =>
        \A text \in EnglishTexts : OldHoldsAll(text) =>
            /\ text \notin Requested
            /\ pc = "done" =>
                  \A p \in FieldPairs : \A L \in Targets :
                      (/\ HasEnglish(p.before) /\ English(p.before) = text
                       /\ Tagged(p.before, L) = <<>>)
                      => \E v \in OldTranslations(text, L) :
                             Tagged(p.after, L) = <<v>>

---------------------------------------------------------------------------
(* C9: a translation the old feed holds under the legacy tag es-LA is      *)
(* reused for the target es-419.                                           *)

\* the (text, language) pairs of the new feed the old feed can serve
ReusedPairs ==
    {pr \in EnglishTexts \X Targets :
        ~OnlyWhitespace(pr[1]) /\ OldTranslations(pr[1], pr[2]) # {}}

\* C9 as stated: with target es-419 and an old es-LA translation of T the
\* run counts a reuse, translates no string, does not request T, and the
\* field with text T gets the old text under es-419 and nothing under es-LA.
C9_AsStated ==
    \A text \in EnglishTexts :
        (LegacyHeld(text) /\ target_langs = <<"es-419">> /\ pc # "start") =>
            /\ metrics.translations_reused >= 1
            /\ metrics.strings_translated = 0
            /\ text \notin Requested
            /\ pc = "done" =>
                  \A p \in FieldPairs :
                      (/\ HasEnglish(p.before) /\ English(p.before) = text
                       /\ Tagged(p.before, "es-419") = <<>>)
                      => /\ \E v \in OldTranslations(text, "es-419") :
                                Tagged(p.after, "es-419") = <<v>>
                         /\ Tagged(p.after, "es-LA") = <<>>

\* C9 (amended): for a non-blank text T held under es-LA, with es-419 a
\* target language and es-LA not: translations_reused counts exactly the
\* pairs the old feed can serve, (T, es-419) among them; in the default
\* mode T is not requested when the old feed serves T for every target
\* language; nothing is requested and strings_translated is 0 when it
\* serves every non-blank text; a field with text T that lacked es-419
\* and whose text was not requested gets one es-419 entry carrying an old
\* translation of T, or none when that translation equals T; no entry
\* tagged es-LA is added.
C9_LegacyMigration ==
    \A text \in EnglishTexts :
        (/\ LegacyHeld(text) /\ ~OnlyWhitespace(text)
         /\ "es-419" \in Targets /\ "es-LA" \notin Targets
         /\ pc # "start") =>
            /\ <<text, "es-419">> \in ReusedPairs
            /\ metrics.translations_reused = Cardinality(ReusedPairs)
            /\ (~always_translate_all /\ OldHoldsAll(text)) => text \notin Requested
            /\ (\A t \in EnglishTexts : OnlyWhitespace(t) \/ OldHoldsAll(t))
                  => calls = <<>> /\ metrics.strings_translated = 0
            /\ pc = "done" =>
                  \A p \in FieldPairs :
                      (HasEnglish(p.before) /\ English(p.before) = text) =>
                          /\ Tagged(p.after, "es-LA") = Tagged(p.before, "es-LA")
                          /\ (Tagged(p.before, "es-419") = <<>> /\ text \notin Requested)
                                => \E v \in OldTranslations(text, "es-419") :
                                       Tagged(p.after, "es-419") =
                                           IF v = text THEN <<>> ELSE <<v>>

\* the migration test's case: the old es-LA text is re-emitted under es-419
\* without a provider call
C9_Witness ==
    /\ pc = "done"
    /\ run = 1
    /\ target_langs = <<"es-419">>
    /\ calls = <<>>
    /\ metrics.translations_reused = 1
    /\ metrics.strings_translated = 0
    /\ \E p \in FieldPairs :
          /\ p.before = <<T("en", A)>>
          /\ LegacyHeld(A)
          /\ OldTranslations(A, "es-419") = {X}
          /\ p.after = <<T("en", A), T("es-419", X)>>

---------------------------------------------------------------------------
(* C10: every language tag the run writes into the output is a canonical   *)
(* code; the legacy tag es-LA is never written.                            *)

\* before and after of every field process_feed may write to
WrittenPairs ==
    FieldPairs \cup
    {[before |-> At(given.feed, loc), after |-> At(feed, loc)] :
        loc \in FieldLocs(given.feed, {"url"})}

C10_CanonicalOutput ==
    pc = "done" =>
        \A p \in WrittenPairs :
            \A i \in (DOMAIN p.after) \ (DOMAIN p.before) :
                /\ p.after[i].language # "es-LA"
                /\ Canonical(p.after[i].language) = p.after[i].language

---------------------------------------------------------------------------
(* C1: a second run on the same new feed against the first run's output    *)
(* issues no provider request, reports strings_translated == 0 and yields  *)
(* an identical output, provided the provider returned a non-null          *)
(* translation for every pair requested in the first run.                  *)

AllNonNull(by_lang) ==
    IsNone(by_lang) \/
    \A lang \in DOMAIN Get(by_lang) : \A i \in DOMAIN Get(by_lang)[lang] :
        ~IsNone(Get(by_lang)[lang][i])

C1_Idempotence ==
    (run = 2 /\ AllNonNull(Get(first).translations_by_lang)) =>
        /\ calls = <<>>
        /\ pc # "translate"
        /\ pc = "done" =>
              /\ metrics.strings_translated = 0
              /\ feed = Get(first).feed
              /\ source_json = Get(first).source_json

---------------------------------------------------------------------------
(* C6: a null result for a (text, language) pair does not fail the run, is *)
(* not written into the translation map, adds no entry for the language to *)
(* the fields with that text unless one is reused from the old feed, and   *)
(* the text is requested again in the next run.                            *)

\* the pairs for which the provider returned null
NullPairs(texts, by_lang) ==
    IF IsNone(by_lang) THEN {}
    ELSE {<<texts[pr[1]], pr[2]>> :
            pr \in {q \in (DOMAIN texts) \X (DOMAIN Get(by_lang)) :
                       /\ q[1] \in DOMAIN Get(by_lang)[q[2]]
                       /\ IsNone(Get(by_lang)[q[2]][q[1]])}}

\* what holds within the run in which the nulls were returned
NullsLeftOut ==
    \A pr \in NullPairs(all_needed_english, translations_by_lang) :
        LET text == pr[1]
            L == pr[2]
        IN  /\ pc \in {"apply", "done"}
            /\ L \in DOMAIN translation_map.val[text]
                  => translation_map.val[text][L] \in OldTranslations(text, L)
            /\ pc = "done" =>
                  \A p \in FieldPairs :
                      (/\ HasEnglish(p.before) /\ English(p.before) = text
                       /\ Tagged(p.before, L) = <<>>)
                      => \/ Tagged(p.after, L) = <<>>
                         \/ \E v \in OldTranslations(text, L) :
                                Tagged(p.after, L) = <<v>>

\* C6 as stated: the text is requested again in the next run
C6_AsStated ==
    /\ NullsLeftOut
    /\ (run = 2 /\ pc \in {"apply", "done", "raised"}) =>
          \A pr \in NullPairs(Get(first).all_needed_english,
                              Get(first).translations_by_lang) :
              pr[1] \in Requested

\* C6 (amended): the text is requested again in the next run unless the
\* published output holds a translation of it for every target language
\* (an explicit entry of another field with the same text, or entries
\* reused from the old feed)
C6_NullStaysMissing ==
    /\ NullsLeftOut
    /\ (run = 2 /\ pc \in {"apply", "done", "raised"}) =>
          \A pr \in NullPairs(Get(first).all_needed_english,
                              Get(first).translations_by_lang) :
              ~OldHoldsAll(pr[1]) => pr[1] \in Requested

\* a null left a field without the language, and the second run asked again
C6_Witness ==
    /\ run = 2
    /\ pc = "apply"
    /\ \E pr \in NullPairs(Get(first).all_needed_english,
                           Get(first).translations_by_lang) :
          /\ pr[1] \in Requested
          /\ ~OldHoldsAll(pr[1])
          /\ \E loc \in FieldLocs(given.feed, Structured) :
                /\ HasEnglish(At(given.feed, loc))
                /\ English(At(given.feed, loc)) = pr[1]
                /\ Tagged(At(Get(first).feed, loc), pr[2]) = <<>>

---------------------------------------------------------------------------
(* C3: the upload is decided for exactly when there is no old feed, or the *)
(* header timestamps of the old and the new feed differ, or                *)
(* strings_translated > 0; run_translation writes to the destination only  *)
(* when it is decided for.                                                 *)

C3_UploadDecision ==
    /\ rt.decision # "none" =>
          ((rt.decision = "upload") <=>
               \/ IsNone(old_feed)
               \/ Get(old_feed).header.timestamp # feed.header.timestamp
               \/ metrics.strings_translated > 0)
    /\ rt.writes # <<>> => rt.decision = "upload"

\* old feed present, same timestamp, everything reused: no write
C3_Witness ==
    /\ rt.pc = "returned"
    /\ rt.decision = "skip"
    /\ rt.writes = <<>>
    /\ ~IsNone(old_feed)
    /\ Get(old_feed).header.timestamp = feed.header.timestamp
    /\ metrics.translations_reused > 0
    /\ metrics.strings_translated = 0

---------------------------------------------------------------------------
(* C4: a run in which fetching or parsing the source, the provider call or *)
(* the serialization fails writes nothing to the destination and ends with *)
(* the failure; a write happens only after process_feed completed.         *)

C4_NoPartialCommit ==
    /\ rt.error \in {"fetch_source", "parse", "provider", "serialize"} =>
          /\ rt.pc = "failed"
          /\ rt.writes = <<>>
          /\ rt.dest = rt.stored
    /\ rt.writes # <<>> =>
          /\ pc = "done"
          /\ rt.error = "none"
          /\ rt.writes = <<Some(SerializeJson(feed, source_json))>>

\* the provider raised after it was called; the stored object is untouched
C4_Witness ==
    /\ rt.pc = "failed"
    /\ rt.error = "provider"
    /\ rt.closed
    /\ calls # <<>>
    /\ ~IsNone(old_feed)
    /\ rt.writes = <<>>
    /\ rt.dest = rt.stored

---------------------------------------------------------------------------
(* C11: for a url field with a non-empty English URL U and a target        *)
(* language L without an entry in the field, process_feed adds exactly one *)
(* entry tagged L: U itself if U contains a locale parameter, else U with  *)
(* "?locale=L" if U has no query string, else U with "&locale=L"; entries  *)
(* present for L stay as they are and a field without an English URL is    *)
(* unchanged.                                                              *)

\* a query parameter named locale
HasLocaleParameter(u) ==
    \E i \in DOMAIN u : u[i] = "locale=" /\ i > 1 /\ u[i - 1] \in {"?", "&"}

HasQueryString(u) == \E i \in DOMAIN u : u[i] = "?"

ExpectedUrl(u, L) ==
    IF HasLocaleParameter(u) THEN u
    ELSE IF HasQueryString(u) THEN u \o <<"&", "locale=", L>>
    ELSE u \o <<"?", "locale=", L>>

C11_UrlLocaleRule ==
    pc = "done" =>
        \A loc \in FieldLocs(given.feed, {"url"}) :
            LET before == At(given.feed, loc)
                after == At(feed, loc)
            IN  IF HasEnglish(before) /\ English(before) # <<>>
                THEN \A L \in Targets :
                        Tagged(after, L) =
                            IF Tagged(before, L) # <<>> THEN Tagged(before, L)
                            ELSE <<ExpectedUrl(English(before), L)>>
                ELSE after = before

---------------------------------------------------------------------------
(* C12: with always_translate_all set and some non-blank English text of   *)
(* the new feed lacking a target language, every non-blank distinct        *)
(* English text of the new feed is requested, and the fields lacking the   *)
(* language receive the provider's result instead of the old translation.  *)

\* the old translations of a text filed under language code L: the old
\* entries whose tag has the canonical form L
OldFiled(text, L) ==
    UNION {{ts[i].text : i \in {j \in DOMAIN ts :
                                  /\ ts[j].language \notin {"", "en"}
                                  /\ Canonical(ts[j].language) = L}} :
           ts \in {f \in OldFields : HasEnglish(f) /\ English(f) = text}}

SomethingLacking ==
    \E text \in EnglishTexts : ~OnlyWhitespace(text) /\ ~OldHoldsAll(text)

AllRequested ==
    /\ NoDuplicates(all_needed_english)
    /\ Range(all_needed_english) = {text \in EnglishTexts : ~OnlyWhitespace(text)}
    /\ pc \in {"apply", "done", "raised"} =>
          calls = <<[texts |-> all_needed_english, langs |-> target_langs]>>

\* C12 as stated: the field carries what the provider returned
C12_AsStated ==
    (always_translate_all /\ SomethingLacking /\ pc # "start") =>
        /\ AllRequested
        /\ pc = "done" =>
              \A p \in FieldPairs : \A L \in Targets :
                  (/\ HasEnglish(p.before)
                   /\ ~OnlyWhitespace(English(p.before))
                   /\ Tagged(p.before, L) = <<>>)
                  => Tagged(p.after, L) = Returned(English(p.before), L)

\* C12 (amended): the field receives the provider's result when that is
\* not null and differs from the English text; a result equal to the
\* English text adds no entry; for a null result the field gets the old
\* feed's translation filed under that language code, if there is one and
\* it differs from the English text
C12_TranslateAll ==
    (always_translate_all /\ SomethingLacking /\ pc # "start") =>
        /\ AllRequested
        /\ pc = "done" =>
              \A p \in FieldPairs : \A L \in Targets :
                  (/\ HasEnglish(p.before)
                   /\ ~OnlyWhitespace(English(p.before))
                   /\ Tagged(p.before, L) = <<>>)
                  => LET text == English(p.before)
                         r == Returned(text, L)
                     IN  IF ~IsNone(r)
                         THEN Tagged(p.after, L) =
                                  IF Get(r) = text THEN <<>> ELSE r
                         ELSE IF OldFiled(text, L) = {}
                         THEN Tagged(p.after, L) = <<>>
                         ELSE \E v \in OldFiled(text, L) :
                                  Tagged(p.after, L) =
                                      IF v = text THEN <<>> ELSE <<v>>

\* a text the old feed serves is requested because another one is missing,
\* and its field carries the provider's text, not the old one
C12_Witness ==
    /\ pc = "done"
    /\ run = 1
    /\ always_translate_all
    /\ target_langs = <<"es-419">>
    /\ Len(calls) = 1 /\ Len(calls[1].texts) = 2
    /\ OldTranslations(A, "es-419") = {X}
    /\ A \in Requested
    /\ \E p \in FieldPairs :
          /\ p.before = <<T("en", A)>>
          /\ p.after = <<T("en", A), T("es-419", MockTranslation("es-419", A))>>

---------------------------------------------------------------------------
(* C13: with always_translate_all set and every non-blank English text of  *)
(* the new feed held by the old feed in every target language,             *)
(* translate_batch is never called and the old translations are applied    *)
(* to the new feed.                                                        *)

C13_NothingMissing ==
    (always_translate_all /\ ~SomethingLacking) =>
        /\ calls = <<>>
        /\ pc # "translate"
        /\ pc = "done" =>
              \A p \in FieldPairs : \A L \in Targets :
                  (/\ HasEnglish(p.before)
                   /\ ~OnlyWhitespace(English(p.before))
                   /\ Tagged(p.before, L) = <<>>)
                  => \E v \in OldTranslations(English(p.before), L) :
                         Tagged(p.after, L) = <<v>>

---------------------------------------------------------------------------
(* C14: for a JSON feed every key of a source-tree entity or of its alert  *)
(* that the schema does not represent is in the serialized output, under   *)
(* the entity with the same id and with the value it had in the source     *)
(* tree; it is never attached to an entity with another id.                *)

\* the alert keys of a raw entity the schema does not represent
UnknownAlertKeys(e) ==
    IF IsNone(e.alert) THEN {} ELSE (DOMAIN Get(e.alert)) \ STRUCTURED_KEYS

\* the value the output must hold for an unknown alert key, as stated
SameValue(k, src_value, out_value) == out_value = src_value

\* the same, but a translatable enhanced field keeps its entries and may
\* have gained entries tagged with target languages after them
SameOrTranslated(k, src_value, out_value) ==
    IF k \in Enhanced
    THEN /\ Len(out_value) >= Len(src_value)
         /\ SubSeq(out_value, 1, Len(src_value)) = src_value
         /\ \A i \in (DOMAIN out_value) \ (DOMAIN src_value) :
                out_value[i].language \in Targets
    ELSE out_value = src_value

Survives(src, out, Same(_, _, _)) ==
    /\ \A i \in DOMAIN src.entity :
          \E j \in DOMAIN out.entity :
              LET s == src.entity[i]
                  o == out.entity[j]
              IN  /\ o.id = s.id
                  /\ \A k \in DOMAIN s.extra :
                        k \in DOMAIN o.extra /\ o.extra[k] = s.extra[k]
                  /\ UnknownAlertKeys(s) # {} =>
                        /\ ~IsNone(o.alert)
                        /\ \A k \in UnknownAlertKeys(s) :
                              /\ k \in DOMAIN Get(o.alert)
                              /\ Same(k, Get(s.alert)[k], Get(o.alert)[k])
    /\ \A j \in DOMAIN out.entity :
          LET o == out.entity[j]
              same == {i \in DOMAIN src.entity : src.entity[i].id = o.id}
          IN  /\ \A k \in DOMAIN o.extra :
                    \E i \in same : k \in DOMAIN src.entity[i].extra
              /\ \A k \in UnknownAlertKeys(o) :
                    \E i \in same : k \in UnknownAlertKeys(src.entity[i])

\* C14 as stated: every such key has the value of the source tree
C14_AsStated ==
    (run = 2 /\ ~IsNone(dest_json)) =>
        Survives(Get(given.source_json), Get(dest_json), SameValue)

\* C14 (amended): every such key has the value of the source tree, except
\* service_effect_text and timeframe_text, which keep their entries and
\* gain the target-language entries process_feed appended
C14_EnhancedSurvival ==
    (run = 2 /\ ~IsNone(dest_json)) =>
        Survives(Get(given.source_json), Get(dest_json), SameOrTranslated)

\* two entities with different entity-level values, an alert-level unknown
\* key, and an enhanced field that was translated, all in the output
C14_Witness ==
    /\ run = 2
    /\ ~IsNone(dest_json)
    /\ LET src == Get(given.source_json)
           out == Get(dest_json)
       IN  /\ Len(src.entity) = 2 /\ Len(out.entity) = 2
           /\ src.entity[1].extra # src.entity[2].extra
           /\ src.entity[1].extra # <<>>
           /\ out.entity[1].extra = src.entity[1].extra
           /\ out.entity[2].extra = src.entity[2].extra
           /\ \E j \in DOMAIN out.entity :
                 /\ ~IsNone(out.entity[j].alert)
                 /\ "service_effect_text" \in DOMAIN Get(out.entity[j].alert)
                 /\ Get(out.entity[j].alert)["effect_detail"] = <<"d2">>
                 /\ Len(Get(out.entity[j].alert)["service_effect_text"]) = 2

---------------------------------------------------------------------------
(* C15: a translation request rejected with 401 is retried exactly once    *)
(* with a fresh token; when the retried request is rejected with 401 too,  *)
(* translate_batch fails without a third attempt.                          *)

C15_AuthRetryOnce ==
    \A i \in DOMAIN smartling.log :
        (i > 1 /\ smartling.log[i - 1] = 401 /\ smartling.log[i] = 401) =>
            /\ Len(smartling.log) = i
            /\ smartling.pc = "raised"

---------------------------------------------------------------------------
(* C16: a rate-limited call is attempted at most 5 times; when the 5th     *)
(* attempt is rate-limited too, no further request is sent and the call    *)
(* fails with an error that reports the target language; a rejection other *)
(* than 401 or 429 fails the call at once, without a result.               *)

C16_RateLimitExhaustion ==
    /\ Len(smartling.log) <= 5
    /\ (Len(smartling.log) = 5 /\ smartling.log[5] = 429) =>
          /\ smartling.pc = "raised"
          /\ smartling.error.names_lang
    /\ \A i \in DOMAIN smartling.log :
          smartling.log[i] \notin {200, 401, 429} =>
              /\ Len(smartling.log) = i
              /\ smartling.pc = "raised"
              /\ IsNone(smartling.result)

---------------------------------------------------------------------------
(* C17: when the read of the previously published feed reports not found,  *)
(* the read does not fail the run; the run goes on with no old feed and an *)
(* empty old-translations map, so that nothing is reused and every         *)
(* non-blank English text of the new feed is requested from the provider,  *)
(* and once process_feed has completed the upload is decided for and the   *)
(* translated feed is what the run writes.                                 *)

\* process_feed has built its request list
Collected == pc \in {"translate", "apply", "done", "raised"}

C17_MissingDestination ==
    rt.read = "not_found" =>
        /\ rt.error # "fetch_old"
        /\ rt.pc = "failed" => rt.error \in {"provider", "serialize", "put_object"}
        /\ IsNone(old_feed) /\ IsNone(dest_json)
        /\ metrics.translations_reused = 0
        /\ pc = "translate" =>
              \A text \in DOMAIN translation_map.val :
                  DOMAIN translation_map.val[text] = {}
        /\ Collected =>
              /\ NoDuplicates(all_needed_english)
              /\ Range(all_needed_english) =
                     {text \in EnglishTexts : ~OnlyWhitespace(text)}
        /\ (pc \in {"apply", "done", "raised"} /\ all_needed_english # <<>>) =>
              calls = <<[texts |-> all_needed_english, langs |-> target_langs]>>
        /\ (pc = "done" /\ rt.pc # "process") => rt.decision = "upload"
        /\ rt.pc = "returned" =>
              rt.writes = <<Some(SerializeJson(feed, source_json))>>

\* a first run in which nothing had to be translated is uploaded all the
\* same, and so is one whose texts were all sent to the provider
C17_Witness ==
    /\ rt.read = "not_found"
    /\ rt.pc = "returned"
    /\ rt.writes # <<>>
    /\ \/ metrics.strings_translated = 0
       \/ /\ calls # <<>>
          /\ \E p \in FieldPairs : \E L \in Targets :
                /\ Tagged(p.before, L) # <<>>
                /\ English(p.before) \in Requested

---------------------------------------------------------------------------
(* C19: a run whose source location equals its destination location fails *)
(* with the same-location error before the source or the destination is    *)
(* read, before the provider is called and before anything is written.     *)

C19_SameSourceAndDestination ==
    rt.same_url =>
        /\ rt.pc \in {"invoked", "failed"}
        /\ rt.pc = "failed" => rt.error = "same_url"
        /\ feed = NoFeed /\ IsNone(source_json)
        /\ rt.read = "none" /\ IsNone(old_feed) /\ IsNone(dest_json)
        /\ pc = "idle" /\ calls = <<>>
        /\ rt.writes = <<>> /\ rt.dest = rt.stored

\* the run has failed, the object both locations name is as it was
C19_Witness ==
    /\ rt.same_url
    /\ rt.pc = "failed"
    /\ rt.error = "same_url"
    /\ ~IsNone(rt.content)
    /\ ~IsNone(rt.stored) /\ ~IsNone(Get(rt.stored))
    /\ rt.dest = rt.stored

---------------------------------------------------------------------------
(* C20: an event whose first record is a storage-change record starts the  *)
(* run with the source s3://<bucket>/<decoded key> of that record, whatever *)
(* source is configured; any other event starts it with the configured     *)
(* source; the destination of the run is the configured destination.       *)

StorageRecord(event) ==
    /\ ~IsNone(event.Records)
    /\ Get(event.Records) # <<>>
    /\ ~IsNone(Get(event.Records)[1].s3)

\* the key with its escaped characters decoded
RECURSIVE Decoded(_)
Decoded(key) ==
    IF key = <<>> THEN <<>>
    ELSE <<CASE Head(key) \in {"%20", "+"} -> " "
             [] Head(key) = "%2B" -> "+"
             [] OTHER -> Head(key)>> \o Decoded(Tail(key))

C20_SourceSelection ==
    (rt.pc # "handler" /\ rt.settings.destination_bucket_urls # NO_TEXT) =>
        /\ StorageRecord(rt.event) =>
              LET s3 == Get(Get(rt.event.Records)[1].s3) IN
              /\ rt.pc = "started"
              /\ rt.source_url = Some(<<"s3://", s3.bucket, "/">> \o Decoded(s3.key))
              /\ rt.dest_url = Some(rt.settings.destination_bucket_urls)
        /\ (/\ ~StorageRecord(rt.event)
            /\ rt.event.Records \in {None, Some(<<OtherRecord>>)}
            /\ rt.settings.source_url # NO_TEXT) =>
              /\ rt.pc = "started"
              /\ rt.source_url = Some(rt.settings.source_url)
              /\ rt.dest_url = Some(rt.settings.destination_bucket_urls)

---------------------------------------------------------------------------
(* C18: translate_batch returns one list per requested language; when the  *)
(* provider answers every item, in whatever order it lists them, each list *)
(* has the length of the request and its i-th element is the translation   *)
(* of the i-th text, and process_feed files the i-th result under the i-th *)
(* text; a list of another length fails the run and nothing is applied.    *)

\* v is an answer the provider gives for this text and language
AnswerFor(v, L, text) ==
    \/ IsNone(v)
    \/ Get(v) = text
    \/ Get(v) = <<"[", L, "]", " ">> \o text

Aligned(texts, by_lang) ==
    \A L \in DOMAIN by_lang : Len(by_lang[L]) = Len(texts)

C18_PositionalAlignment ==
    ~IsNone(translations_by_lang) =>
        LET texts == calls[1].texts
            by_lang == Get(translations_by_lang)
        IN  /\ DOMAIN by_lang = Range(calls[1].langs)
            /\ pc # "raised" =>
                  /\ Aligned(texts, by_lang)
                  /\ \A L \in DOMAIN by_lang : \A i \in DOMAIN texts :
                        /\ AnswerFor(by_lang[L][i], L, texts[i])
                        /\ ~IsNone(by_lang[L][i]) =>
                              /\ L \in DOMAIN translation_map.val[texts[i]]
                              /\ translation_map.val[texts[i]][L] = Get(by_lang[L][i])
            /\ ~Aligned(texts, by_lang) =>
                  /\ pc = "raised"
                  /\ feed = given.feed
                  /\ source_json = given.source_json

\* two texts were answered and the second text's translation went to the
\* fields with the second text
C18_Witness ==
    /\ pc = "done"
    /\ ~IsNone(translations_by_lang)
    /\ Len(calls[1].texts) >= 2
    /\ \E L \in Targets : \E p \in FieldPairs :
          /\ HasEnglish(p.before)
          /\ English(p.before) = calls[1].texts[2]
          /\ Tagged(p.before, L) = <<>>
          /\ Tagged(p.after, L) = <<<<"[", L, "]", " ">> \o calls[1].texts[2]>>

---------------------------------------------------------------------------
(* C23: an authentication request is sent only when no token is cached or  *)
(* the clock has reached the time of the last authentication + expiresIn - *)
(* 60; in every other case the provider request is sent with the cached    *)
(* token and without authenticating, also in a later translate_batch call  *)
(* on the same client.                                                     *)

\* the cached token is still to be used at the current reading of the clock
Fresh ==
    /\ ~IsNone(smartling.token)
    /\ smartling.now < smartling.auth_at + smartling.expires_in - 60

C23_TokenCaching ==
    [][/\ smartling'.auths > smartling.auths => ~Fresh
       /\ (smartling.pc = "get_token" /\ smartling'.pc \in {"auth", "post"}) =>
             IF Fresh
             THEN /\ smartling'.pc = "post"
                  /\ smartling'.auths = smartling.auths
                  /\ smartling'.bearer = smartling.token
             ELSE /\ smartling'.pc = "auth"
                  /\ smartling'.auths = smartling.auths + 1]_vars

\* the second call on the client goes out with the first call's token
C23_Witness ==
    /\ smartling.call = 2
    /\ smartling.pc = "post"
    /\ smartling.auths = 1
    /\ smartling.bearer = Some(1)
    /\ smartling.now > smartling.auth_at

---------------------------------------------------------------------------
(* C25: the windows of the sleeps of one call are 1, 2, 4, 8: the first is *)
(* 1 second and each next one min(30, twice the one before); there are at  *)
(* most 4 sleeps, each lasting between 0 and its window, one before every  *)
(* retry after a 429 and none before a retry after a 401.                  *)

Windows(sleeps) ==
    /\ Len(sleeps) <= 4
    /\ \A n \in DOMAIN sleeps :
          /\ sleeps[n] <= 30
          /\ sleeps[n] = IF n = 1 THEN 1
                         ELSE IF 2 * sleeps[n - 1] < 30 THEN 2 * sleeps[n - 1]
                         ELSE 30

\* the step is a retry after a rejection with this status
RetryAfter(status) ==
    /\ smartling.pc \in {"auth", "post"}
    /\ smartling'.pc = "attempt"
    /\ smartling'.last_error = Some(status)

C25_BackoffWindows ==
    [][/\ Windows(smartling'.sleeps)
       /\ RetryAfter(429) =>
             /\ Len(smartling'.sleeps) = Len(smartling.sleeps) + 1
             /\ smartling'.sleep_for >= 0
             /\ smartling'.sleep_for <= smartling'.sleeps[Len(smartling'.sleeps)]
       /\ RetryAfter(401) =>
             /\ smartling'.sleeps = smartling.sleeps
             /\ smartling'.sleep_for = smartling.sleep_for]_vars

\* four rate-limit retries, one retry after a 401 in between
C25_Witness ==
    /\ smartling.sleeps = <<1, 2, 4>>
    /\ smartling.sleep_for = 4
    /\ smartling.log = <<429, 401, 429, 429>>

---------------------------------------------------------------------------
(* C21: at no time are more than concurrency_limit provider requests       *)
(* outstanding, however many target languages there are.                   *)

Outstanding ==
    {t \in DOMAIN smartling.tasks : smartling.tasks[t].pc \in {"auth", "post"}}

C21_ConcurrencyBound ==
    Cardinality(Outstanding) <= smartling.concurrency_limit

---------------------------------------------------------------------------
(* C22: at most one authentication request is in flight at any moment; a   *)
(* call that waited for the lock while one was in flight sends its request *)
(* with the token cached when it gets the lock, and authenticates only     *)
(* when by then no token is cached (the request it waited for failed, or a *)
(* 401 of another call has dropped the token) or the token has expired.    *)

Authenticating ==
    {t \in DOMAIN smartling.tasks : smartling.tasks[t].pc = "auth"}

\* the tasks that leave the queue of the lock in this step
Resumed ==
    {t \in DOMAIN smartling.tasks :
        /\ smartling.tasks[t].pc = "wait"
        /\ smartling'.tasks[t].pc # "wait"
        /\ ~IsNone(smartling.tasks[t].waited)}

---------------------------------------------------------------------------
(* C24: in the job-batch and file-upload strategies a 401 on a provider    *)
(* request drops the cached token and the request is sent again, and a 429 *)
(* is retried instead of ending translate_batch.                           *)

\* a request of the workflow itself is in flight (not the authentication)
ProviderRequest == smartling.pc \in {"step", "status", "download"}

\* the request in flight is answered with this status in this step
RejectedWith(status) ==
    /\ smartling.error.kind = "none"
    /\ smartling'.error = [kind |-> "HTTPStatusError", status |-> status]

C24_SharedAuthRules ==
    [][/\ (ProviderRequest /\ RejectedWith(401)) =>
              /\ smartling'.pc \notin {"raised", "returned"}
              /\ IsNone(smartling'.token)
       /\ (ProviderRequest /\ RejectedWith(429)) =>
              smartling'.pc \notin {"raised", "returned"}]_vars

---------------------------------------------------------------------------
(* C26: the job-batch strategy sends its requests in the order job, batch, *)
(* upload, status poll, download; in both strategies a download is         *)
(* requested only in the step in which a poll returned COMPLETED, and a    *)
(* poll that returns FAILED ends translate_batch with an error that holds  *)
(* the status payload, no download having been requested.                  *)

JobBatchOrder == <<"jobs", "batches", "upload", "status", "download">>

\* the status the strategy finds in the payload of the last poll
Reports(c, v) ==
    /\ ~IsNone(c.data)
    /\ LET d == Get(c.data) IN
       IF c.strategy = "job_batch"
       THEN d.status = Some(v)
       ELSE IF d.status \in {None, Some("")}
       THEN d.state = Some(v)
       ELSE d.status = Some(v)

DownloadRequested(c) == \E l \in DOMAIN c.downloads : c.downloads[l] # "none"

C26_WorkflowOrdering ==
    [][/\ smartling.strategy = "job_batch" =>
              smartling'.sent = SubSeq(JobBatchOrder, 1, Len(smartling'.sent))
       /\ (~DownloadRequested(smartling) /\ DownloadRequested(smartling')) =>
              /\ smartling.pc = "status"
              /\ Reports(smartling', "COMPLETED")
       /\ (smartling.pc = "status" /\ Reports(smartling', "FAILED")) =>
              /\ smartling'.pc = "raised"
              /\ smartling'.error = [kind |-> "RuntimeError",
                                     payload |-> Get(smartling'.data)]
              /\ ~DownloadRequested(smartling')]_vars

\* a job-batch call went through its five kinds of request and returned
\* the downloads of two languages
C26_Witness ==
    /\ smartling.strategy = "job_batch"
    /\ smartling.pc = "returned"
    /\ smartling.sent = JobBatchOrder
    /\ Len(smartling.langs) = 2
    /\ \A l \in DOMAIN smartling.downloads : smartling.downloads[l] = "done"

---------------------------------------------------------------------------
(* C27: a poll answered with a status other than COMPLETED and FAILED      *)
(* (absent and unknown ones too) is followed by a sleep and then by        *)
(* another poll; translate_batch has ended only if a request failed or a   *)
(* poll reported COMPLETED or FAILED, and once a poll reports one of them  *)
(* it ends.                                                                *)

Terminated == smartling.pc \in {"returned", "raised"}

TerminalReport(c) == Reports(c, "COMPLETED") \/ Reports(c, "FAILED")

RequestFailed == smartling.error.kind \in {"HTTPStatusError", "TimeoutException"}

C27_PollingLiveness ==
    /\ [][(/\ smartling.pc = "status"
           /\ smartling'.error.kind = "none"
           /\ ~TerminalReport(smartling')) => smartling'.pc = "sleep"]_vars
    /\ [][smartling.pc = "sleep" => smartling'.pc = "status"]_vars
    /\ (smartling.pc = "sleep") ~> (smartling.pc = "status")
    /\ [](Terminated => (RequestFailed \/ TerminalReport(smartling)))
    /\ TerminalReport(smartling) ~> Terminated

\* a poll is in flight after one whose payload had neither status nor state
C27_Witness ==
    /\ smartling.pc = "status"
    /\ smartling.data = Some([status |-> None, state |-> None])


---------------------------------------------------------------------------
(* C28: whenever a run skips the upload, the translated new feed, as it    *)
(* would have been written, is what the destination holds.                 *)

\* the upload the run did not make
SkippedBody == Some(Some(SerializeJson(feed, source_json)))

\* the same, compared as feed messages (without the enhanced fields)
SkippedMessage == Some(Some(MessageToJson(feed)))

Published ==
    IF IsNone(rt.stored) \/ IsNone(Get(rt.stored)) THEN rt.stored
    ELSE Some(Some(MessageToJson(ParseJson(Get(Get(rt.stored))))))

C28_SkipOnlyUnchanged ==
    rt.decision = "skip" => (SkippedBody = rt.stored \/ SkippedMessage = Published)


---------------------------------------------------------------------------
(* C29: a field of the new feed carries a translation of the old feed only *)
(* if its English text is, character for character, the text the old feed  *)
(* stored that translation with; a field of an alert that kept its id but  *)
(* whose text differs (were it only by a space) is sent to the provider    *)
(* and carries the provider's answer or nothing.                           *)

\* the alert e1 of the previously published feed: its text and translations
OldEntry == Get(Get(old_feed).entity[1].alert)["header_text"]

\* the before and after of the header_text of the new feed's alerts, by id
ReuseFields ==
    {[id |-> given.feed.entity[i].id,
      before |-> Get(given.feed.entity[i].alert)["header_text"],
      after |-> Get(feed.entity[i].alert)["header_text"]] :
        i \in DOMAIN given.feed.entity}

C29_ExactTextReuse ==
    pc = "done" =>
        \A p \in ReuseFields : \A L \in {"es-419", "fr"} :
            /\ Tagged(p.after, L) = Tagged(OldEntry, L) =>
                   English(p.before) = English(OldEntry)
            /\ English(p.before) # English(OldEntry) =>
                   /\ English(p.before) \in Requested
                   /\ \A M \in Targets :
                         Tagged(p.after, M) \in
                             {<<>>} \cup {<<Get(r)>> :
                                 r \in {Returned(English(p.before), M)} \ {None}}

\* the alert e1 came back with a trailing space added to its text: it was
\* sent to the provider and carries the answer, while e2, which has the old
\* text, carries the old translation
C29_Witness ==
    /\ pc = "done"
    /\ English(OldEntry) = A
    /\ \E p, q \in ReuseFields :
          /\ p.id = "e1" /\ English(p.before) = A \o SPACE
          /\ A \o SPACE \in Requested
          /\ Tagged(p.after, "es-419") = <<MockTranslation("es-419", A \o SPACE)>>
          /\ q.id = "e2" /\ English(q.before) = A
          /\ Tagged(q.after, "es-419") = <<X>>


---------------------------------------------------------------------------
(* C30: the merge leaves the entities of the derived tree in number, order *)
(* and id, keeps the value of every key the derived entity or alert had,   *)
(* gives it every key it lacked that the original entity (alert) with the  *)
(* same id has, with the original's value, and nothing else; an entity     *)
(* whose id no original entity has is unchanged.                           *)

\* the keys of an entity besides its id, "alert" among them when present
EntityKeys(e) == DOMAIN e.extra \cup (IF IsNone(e.alert) THEN {} ELSE {"alert"})

EntityValue(e, k) == IF k = "alert" THEN e.alert ELSE Some(e.extra[k])

AlertKeys(e) == IF IsNone(e.alert) THEN {} ELSE DOMAIN Get(e.alert)

\* the original entities with this id
Originals(eid) ==
    {rt.original.entity[j] : j \in {n \in DOMAIN rt.original.entity :
                                       rt.original.entity[n].id = eid}}

C30_FillOnlyMerge ==
    rt.pc = "merged" =>
        LET out == Get(rt.merged) IN
        /\ out.header = rt.current.header
        /\ DOMAIN out.entity = DOMAIN rt.current.entity
        /\ \A i \in DOMAIN rt.current.entity :
              LET e == rt.current.entity[i]
                  r == out.entity[i]
                  os == Originals(e.id)
              IN  /\ r.id = e.id
                  /\ os = {} => r = e
                  /\ \A k \in EntityKeys(e) \ {"alert"} :
                        EntityValue(r, k) = EntityValue(e, k)
                  /\ \A k \in AlertKeys(e) :
                        k \in AlertKeys(r) /\ Get(r.alert)[k] = Get(e.alert)[k]
                  /\ \A o \in os :
                        /\ \A k \in EntityKeys(o) \ EntityKeys(e) :
                              k \in EntityKeys(r) /\ EntityValue(r, k) = EntityValue(o, k)
                        /\ ~IsNone(e.alert) =>
                              \A k \in AlertKeys(o) \ AlertKeys(e) :
                                  k \in AlertKeys(r) /\ Get(r.alert)[k] = Get(o.alert)[k]
                  /\ EntityKeys(r) = EntityKeys(e) \cup UNION {EntityKeys(o) : o \in os}
                  /\ AlertKeys(r) = AlertKeys(e) \cup UNION {AlertKeys(o) : o \in os}

\* the derived e1 and the original e1 both have the extension key and
\* header_text, with different values, and only the original has the
\* enhanced field: the merged e1 has the derived values and the enhanced
\* field; e2 is matched by the first entity of the original
C30_Witness ==
    /\ rt.pc = "merged"
    /\ Len(rt.current.entity) = 2
    /\ Len(rt.original.entity) = 2
    /\ rt.original.entity[1].id = "e2"
    /\ LET e == rt.current.entity[1]
           r == Get(rt.merged).entity[1]
       IN  \E o \in Originals("e1") :
              /\ EntityKeys(e) = {"x_extension", "alert"}
              /\ EntityKeys(o) = {"x_extension", "alert"}
              /\ AlertKeys(e) = {"header_text"}
              /\ AlertKeys(o) = {"header_text", "service_effect_text"}
              /\ r.extra["x_extension"] = "derived"
              /\ Get(r.alert)["header_text"] = <<T("en", A)>>
              /\ Get(r.alert)["service_effect_text"] = <<T("en", B)>>


---------------------------------------------------------------------------
(* C31: translations_reused is the number of pairs (T, L) of a distinct    *)
(* English text T of the new feed and a target language L such that the    *)
(* old feed holds a translation of T into L; it is set before the provider *)
(* is called and the provider's results do not change it.                  *)

ReusablePairs ==
    {q \in EnglishTexts \X Targets : OldTranslations(q[1], q[2]) # {}}

C31_AsStated ==
    pc # "start" => metrics.translations_reused = Cardinality(ReusablePairs)


---------------------------------------------------------------------------
(* C32: when process_feed returns, strings_translated is the number of     *)
(* (requested text, target language) pairs for which the provider returned *)
(* a text rather than null in this run, 0 when the provider was not        *)
(* called, and alerts_processed is the number of entities of the new feed  *)
(* that carry an alert.                                                    *)

\* <<position of the requested text, language>> of the non-null results
NonNullResults ==
    IF calls = <<>> \/ IsNone(translations_by_lang) THEN {}
    ELSE {q \in (DOMAIN calls[1].texts) \X Targets :
             /\ q[2] \in DOMAIN Get(translations_by_lang)
             /\ q[1] \in DOMAIN Get(translations_by_lang)[q[2]]
             /\ Get(translations_by_lang)[q[2]][q[1]] # None}

EntitiesWithAlert ==
    {i \in DOMAIN given.feed.entity : given.feed.entity[i].alert # None}

C32_MetricCounts ==
    /\ pc \in {"apply", "done"} =>
          /\ metrics.strings_translated = Cardinality(NonNullResults)
          /\ calls = <<>> => metrics.strings_translated = 0
    /\ pc # "start" => metrics.alerts_processed = Cardinality(EntitiesWithAlert)

\* two languages were requested for one text, the provider returned null
\* for one of them, and the feed has an entity without an alert
C32_Witness ==
    /\ pc = "done"
    /\ Len(target_langs) = 2
    /\ Len(all_needed_english) = 1
    /\ Cardinality(NonNullResults) = 1
    /\ metrics.strings_translated = 1
    /\ Len(given.feed.entity) = 2
    /\ metrics.alerts_processed = 1


---------------------------------------------------------------------------
(* C33: if the language tags are pairwise distinct within every            *)
(* TranslatedString of the new feed and of its overlay before              *)
(* process_feed, they are so after it, for every target-language list.     *)

UniqueTags(ts) ==
    \A i, j \in DOMAIN ts : ts[i].language = ts[j].language => i = j

\* every TranslatedString of a tree: the fields of the alerts
AllFields(tree) ==
    UNION {{Get(tree.entity[i].alert)[n] : n \in DOMAIN Get(tree.entity[i].alert)} :
              i \in {k \in DOMAIN tree.entity : tree.entity[k].alert # None}}

AllUnique(f, json) ==
    /\ \A ts \in AllFields(f) : UniqueTags(ts)
    /\ json # None => \A ts \in AllFields(Get(json)) : UniqueTags(ts)

C33_UniqueTags ==
    (pc = "done" /\ AllUnique(given.feed, given.source_json)) =>
        AllUnique(feed, source_json)


---------------------------------------------------------------------------
(* C34: when neither the settings nor the event give a source location, or *)
(* no destination is configured, lambda_handler raises and run_translation *)
(* (the only code that fetches, reads the destination, calls the provider  *)
(* or writes) is not started.                                              *)

NoSourceLocation ==
    rt.settings.source_url = NO_TEXT /\ ~StorageRecord(rt.event)

NoDestination == rt.settings.destination_bucket_urls = NO_TEXT

C34_ConfigurationFirst ==
    (rt.pc # "handler" /\ (NoSourceLocation \/ NoDestination)) =>
        /\ rt.pc = "raised"
        /\ rt.source_url = None
        /\ rt.dest_url = None

\* an invocation by a schedule, with a destination but without SOURCE_URL
C34_Witness ==
    /\ rt.pc = "raised"
    /\ rt.event.Records = None
    /\ NoSourceLocation
    /\ ~NoDestination
    /\ rt.error = "ValueError: no source"


---------------------------------------------------------------------------
(* C35: within one call of the inline strategy at most 5 translation       *)
(* requests are sent for the language, whatever the sequence of 401 and    *)
(* 429 answers: the retries after a 401 and after a 429 use up the same    *)
(* attempts.                                                               *)

\* the translation requests of this call: the answered ones, the one in
\* flight and the one that failed without an answer
RequestsSent ==
    Len(smartling.log)
    + (IF smartling.pc = "post" THEN 1 ELSE 0)
    + (IF smartling.error.kind = "exception" THEN 1 ELSE 0)

C35_BoundedAttempts == RequestsSent <= 5

\* five requests, rejected with 401 and with 429 in turn, and the call over
C35_Witness ==
    /\ smartling.pc = "raised"
    /\ smartling.log = <<401, 429, 401, 429, 401>>


---------------------------------------------------------------------------
(* C36: a 401 that answers a request sent with an older token leaves a     *)
(* newer token, cached meanwhile by another call, in place.                *)

\* the calls whose request is answered with 401 in this step
Answered401 ==
    {t \in DOMAIN smartling.tasks :
        /\ smartling.tasks[t].pc = "post"
        /\ smartling'.tasks[t].last_error = Some(401)
        /\ smartling'.tasks[t].attempt = smartling.tasks[t].attempt + 1}

C36_StaleRejection ==
    [][\A t \in Answered401 :
          (/\ smartling.token # None
           /\ smartling.token # smartling.tasks[t].bearer)
          => smartling'.token = smartling.token]_vars


---------------------------------------------------------------------------
(* C37: when the read or the parse of the previously published feed fails  *)
(* with anything but a storage client error, the run does not fail for it: *)
(* it goes on without an old feed, sends every non-blank English text of   *)
(* the new feed to the provider and decides for the upload; the read fails *)
(* the run only with a storage client error other than not-found.          *)

NonBlankTexts == {text \in EnglishTexts : \E i \in DOMAIN text : text[i] # " "}

C37_UnreadableOldFeed ==
    /\ rt.error = "fetch_old" <=> rt.read = "error"
    /\ rt.read = "error" => rt.pc = "failed" /\ calls = <<>> /\ rt.writes = <<>>
    /\ rt.read = "unreadable" =>
          /\ old_feed = None /\ dest_json = None
          /\ pc \in {"translate", "apply", "done", "raised"} =>
                /\ Range(all_needed_english) = NonBlankTexts
                /\ Len(all_needed_english) = Cardinality(NonBlankTexts)
          /\ (pc \in {"apply", "done"} /\ NonBlankTexts # {}) =>
                /\ Len(calls) = 1
                /\ calls[1].texts = all_needed_english
          /\ (pc = "done" /\ rt.pc # "process") => rt.decision = "upload"
          /\ rt.decision # "skip"
          /\ rt.pc = "returned" => Len(rt.writes) = 1

\* the destination holds a feed that translates the text, the read failed
\* unexpectedly, and the run sent the text to the provider and wrote the feed
C37_Witness ==
    /\ rt.read = "unreadable"
    /\ rt.stored # None /\ Get(rt.stored) # None
    /\ rt.pc = "returned"
    /\ Len(calls) = 1
    /\ A \in Range(calls[1].texts)
    /\ Len(rt.writes) = 1


---------------------------------------------------------------------------
(* C38: a translation, reused or returned in this run, that equals the     *)
(* non-empty English text of a field is not added to it: the field stays   *)
(* without that language; and when the output is read as the old feed by   *)
(* the next run, a text the provider echoed is requested again.            *)

\* the fields with a non-empty English text that lacked language L
Lacking(L) ==
    {p \in FieldPairs : /\ HasEnglish(p.before)
                        /\ English(p.before) # <<>>
                        /\ Tagged(p.before, L) = <<>>}

\* what the provider returned for (text, L) in the first run
FirstReturned(text, L) ==
    IF first = None THEN None
    ELSE LET f == Get(first) IN
         IF f.calls = <<>> \/ f.translations_by_lang = None THEN None
         ELSE LET texts == f.calls[1].texts
                  idx == {i \in DOMAIN texts : texts[i] = text}
                  by_lang == Get(f.translations_by_lang)
              IN  IF idx = {} \/ L \notin DOMAIN by_lang THEN None
                  ELSE by_lang[L][CHOOSE i \in idx : TRUE]

\* the provider echoed the text of a field lacking L in the first run
EchoedInFirst(text) ==
    \E L \in Targets : \E p \in Lacking(L) :
        English(p.before) = text /\ FirstReturned(text, L) = Some(text)

IdentityNotAdded ==
    pc = "done" =>
        \A L \in Targets : \A p \in Lacking(L) :
            LET e == English(p.before) IN
            /\ Tagged(p.after, L) # <<e>>
            /\ Returned(e, L) = Some(e) => Tagged(p.after, L) = <<>>
            /\ (Returned(e, L) = None /\ OldTranslations(e, L) = {e}) =>
                   Tagged(p.after, L) = <<>>

C38_AsStated ==
    /\ IdentityNotAdded
    /\ (run = 2 /\ pc # "start") =>
          \A text \in EnglishTexts :
              EchoedInFirst(text) => text \in Range(all_needed_english)


\* C38: a translation equal to the non-empty English text of a field is
\* not added and the field stays without the language; in the next run,
\* which reads the output as the old feed, a text the provider echoed is
\* requested again unless other fields of the output with the same English
\* text carry every target language.
C38_IdentityDropped ==
    /\ IdentityNotAdded
    /\ (run = 2 /\ pc # "start") =>
          \A text \in EnglishTexts :
              (EchoedInFirst(text) /\ ~OldHoldsAll(text)) =>
                  text \in Range(all_needed_english)

\* the provider echoed "a" in the first run, the field went out without the
\* language, and the second run asked for "a" again
C38_Witness ==
    /\ run = 2
    /\ pc = "done"
    /\ EchoedInFirst(A)
    /\ A \in Range(all_needed_english)
    /\ \E L \in Targets : \E p \in Lacking(L) :
          English(p.before) = A /\ Returned(A, L) = Some(A) /\ Tagged(p.after, L) = <<>>


---------------------------------------------------------------------------
(* C39: process_feed leaves the old feed and its overlay as they are; in   *)
(* the new feed and its overlay the header, the entities, their ids and    *)
(* the keys of their alerts stay, an entity without an alert is unchanged, *)
(* and every field keeps its entries, in their order, followed by the      *)
(* entries added, which are tagged with target languages.                  *)

\* after is before followed by entries tagged with target languages
Appended(before, after) ==
    /\ Len(before) <= Len(after)
    /\ SubSeq(after, 1, Len(before)) = before
    /\ \A i \in (Len(before) + 1)..Len(after) : after[i].language \in Targets

OnlyAppended(before, after) ==
    /\ after.header = before.header
    /\ DOMAIN after.entity = DOMAIN before.entity
    /\ \A i \in DOMAIN before.entity :
          LET e == before.entity[i]
              r == after.entity[i]
          IN  /\ r.id = e.id
              /\ e.alert = None => r = e
              /\ e.alert # None =>
                    /\ r.alert # None
                    /\ DOMAIN r = DOMAIN e
                    /\ \A k \in DOMAIN e \ {"alert"} : r[k] = e[k]
                    /\ DOMAIN Get(r.alert) = DOMAIN Get(e.alert)
                    /\ \A n \in DOMAIN Get(e.alert) :
                          Appended(Get(e.alert)[n], Get(r.alert)[n])

C39_OnlyAppends ==
    /\ [][run' = run => (old_feed' = old_feed /\ dest_json' = dest_json)]_vars
    /\ [](/\ OnlyAppended(given.feed, feed)
          /\ (given.source_json = None) = (source_json = None)
          /\ given.source_json # None =>
                OnlyAppended(Get(given.source_json), Get(source_json)))

\* a run with an old feed and an overlay that added entries to a structured
\* field and to an enhanced field
C39_Witness ==
    /\ pc = "done"
    /\ old_feed # None
    /\ source_json # None
    /\ feed # given.feed
    /\ source_json # given.source_json
    /\ calls # <<>>

---------------------------------------------------------------------------
(* C40: URLs bypass the provider.  A text that the new feed holds only in   *)
(* a url field is never a key of the translation map and is never in a     *)
(* list sent to translate_batch; and after the run every url field is its  *)
(* former entries followed by one entry per target language it lacked, in  *)
(* the order of the target list, whose text is computed from the English   *)
(* URL and the language alone, so that the old feed and the provider's     *)
(* answers have no part in it.                                             *)

TextFieldNames ==
    {"header_text", "description_text", "tts_header_text", "tts_description_text"}

EnhancedFieldNames == {"service_effect_text", "timeframe_text"}

TextsOf(ts) == {ts[i].text : i \in DOMAIN ts}

\* every text some text field of the new feed holds, in any language
TextFieldTexts ==
    UNION {TextsOf(At(given.feed, loc)) :
              loc \in FieldLocs(given.feed, TextFieldNames)}
    \cup
    (IF IsNone(given.source_json) THEN {}
     ELSE UNION {TextsOf(At(Get(given.source_json), loc)) :
                    loc \in FieldLocs(Get(given.source_json), EnhancedFieldNames)})

\* every text some url field of the new feed holds
UrlTexts ==
    UNION {TextsOf(At(given.feed, loc)) : loc \in FieldLocs(given.feed, {"url"})}

\* the URL for language L, from the English URL u
UrlFor(u, L) ==
    IF \E i \in DOMAIN u : u[i] = "locale=" THEN u
    ELSE u \o <<IF \E i \in DOMAIN u : u[i] = "?" THEN "&" ELSE "?", "locale=", L>>

\* one entry per language of langs that is not in have, in order
RECURSIVE UrlEntries(_, _, _)
UrlEntries(u, have, langs) ==
    IF langs = <<>> THEN <<>>
    ELSE (IF Head(langs) \in have THEN <<>>
          ELSE <<[language |-> Head(langs), text |-> UrlFor(u, Head(langs))]>>)
         \o UrlEntries(u, have, Tail(langs))

C40_UrlsBypassProvider ==
    /\ \A u \in UrlTexts \ TextFieldTexts :
          /\ u \notin DOMAIN translation_map.val
          /\ u \notin Requested
    /\ pc = "done" =>
          \A loc \in FieldLocs(given.feed, {"url"}) :
              LET before == At(given.feed, loc) IN
              At(feed, loc) =
                  before \o (IF HasEnglish(before) /\ English(before) # <<>>
                             THEN UrlEntries(English(before), Tags(before),
                                             target_langs)
                             ELSE <<>>)

\* the provider was called, the url field grew, and the old feed holds the
\* URL's text as the English text of a text field, which the new feed does not
C40_Witness ==
    /\ pc = "done"
    /\ calls # <<>>
    /\ old_feed # None
    /\ \E loc \in FieldLocs(given.feed, {"url"}) :
          LET before == At(given.feed, loc) IN
          /\ Len(At(feed, loc)) > Len(before)
          /\ English(before) \notin TextFieldTexts
          /\ \E o \in FieldLocs(Get(old_feed), TextFieldNames) :
                /\ HasEnglish(At(Get(old_feed), o))
                /\ English(At(Get(old_feed), o)) = English(before)

=============================================================================
